---------------------------- MODULE Spec2Model ----------------------------
(***************************************************************************)
(* Model of the ioBroker stiebel-isg adapter (src/main.js).                *)
(*                                                                         *)
(* Two groups of state are modelled.                                       *)
(*   - The scheduling side: the concurrency queue (schedule / runQueue),   *)
(*     the page fetches issued by admitted tasks, main() with its          *)
(*     credential check and its two poll intervals, and the debounced      *)
(*     command sender (setIsgCommands), reboot and unload.                 *)
(*     Specifications: Spec, FairSpec, BatchSpec, BatchFairSpec, HttpSpec, *)
(*     TimeoutSpec, PageSpec, LifeSpec, UnloadSpec, RestartSpec.           *)
(*   - The object-store side: createISGCommands / updateState /            *)
(*     safeSetState working on one entity of the ioBroker object store.    *)
(*     Specifications: StoreSpec, BoundSpec, StatesSpec, ReadingSpec; for  *)
(*     the extractors' rows ExtractSpec and PassSpec.                      *)
(* Every JavaScript callback runs to completion, so one action is one      *)
(* callback (with the microtasks it triggers).                             *)
(***************************************************************************)
EXTENDS Integers, Sequences, FiniteSets, TLC

VARIABLES
    \* ---- scheduling side ----
    config,                \* adapter.config: [maxConcurrentFetches, isgStatusPaths,
                           \*   isgValuePaths, isgCommandPaths, isgAddress,
                           \*   requestTimeout]
    limits,                \* what a behaviour explores: [events, cmds, reboots]: how
                           \*   many calls of schedule() and setIsgCommands together,
                           \*   of setIsgCommands, of rebootISG; [ids]: the states
                           \*   written to; [items]: the rows or widgets of a page;
                           \*   [history]: which of lastFetch ("fetch"),
                           \*   flushResult ("flush"), lastChange ("change") are
                           \*   written
    phase,                 \* "loaded" before ready() has run, "ready" after, "failed"
                           \*   when ready() could not read system.config
    maxConcurrentFetches,  \* main.js:61, set in ready()
    statusPaths,           \* main.js:53
    valuePaths,            \* main.js:52
    commandPaths,          \* main.js:51
    queue,                 \* main.js:59, sequence of queued task ids
    running,               \* main.js:60
    immediates,            \* pending setImmediate(runQueue) callbacks
    task,                  \* task id -> [st, kind, status]: the closures given to
                           \*   schedule(); st is "none", "queued", "fetching" (awaiting
                           \*   fetch), "body" (awaiting res.text()) or "done"
    credChecks,            \* main() invocations awaiting getHTML('1,0')
    isgIntervall,          \* main.js:45, handle of the last value/status interval
                           \*   timer (0: none yet)
    isgCommandIntervall,   \* main.js:46, handle of the last command interval timer
    intervals,             \* active interval timers: set of [kind, id]
    commands,              \* main.js:47, the pending command batch
    CommandTimeout,        \* main.js:48, handle of the last debounce timer (0: none)
    timers,                \* armed debounce timers: set of [id, payload]
    flushes,               \* save.php POSTs in flight: set of [id, payload]
    burst,                 \* history: commands enqueued since the debounce timer was last idle
    failedCmds,            \* history: tags of commands that were part of a failed flush
    nCmds,                 \* history: number of setIsgCommands calls so far
    anyFailed,             \* history: some admitted task's fetch has failed
    credBodies,            \* credential checks answered 200 whose body is being read
    connection,            \* the state info.connection: "unset", TRUE or FALSE
    taskTimers,            \* armed abort timers of the page fetches of tasks (task ids)
    otherTimers,           \* armed abort timers of credential checks, save.php POSTs
                           \*   and reboot requests: [cred, flush, reboot]
    reboots,               \* reboot.php requests in flight
    restarts,              \* pending setTimeout(main, 60000) timers
    nReboots,              \* history: reboots requested so far
    lastFetch,             \* history: the getHTML call that ended last: [outcome, doc, login,
                           \*   page, processed]
    flushResult,           \* history: outcome of the save.php POST that ended last
    lastChange,            \* history: the notification stateChange handled last: [id, state]
    \* ---- object-store side: one entity id = strGroup.valTag ----
    rec,                   \* the arguments of createISGCommands / updateState that the
                           \*   page yields for this entity
    object,                \* the persisted object: NoObject or [common |-> ...]
    stateVal,              \* the persisted state value: last value written, or Undefined
    proc,                  \* the reconciles in progress: process -> record
    started,               \* history: reconciles started
    overlap,               \* history: two reconciles have been in progress at once
    storeErr,              \* history: a store call has answered with an error
    \* ---- extraction side: what the pages are read with ----
    nameTranslation,       \* main.js:44, the translation table loaded in ready():
                           \*   name -> text
    row,                   \* the row of a page that .each hands to the extractor:
                           \*   [page, at, key, value], the texts of its key cell
                           \*   and the text or markup of its value cell (Null: the
                           \*   row has no such cell); at is "pending" or "done"
    pass                   \* one pass of an extractor over the rows of a page, each
                           \*   row with an entity of its own: [rows, calls, log,
                           \*   inOrder]: per row whether its id ends in val<digits>
                           \*   and where its updateState stands; the store calls
                           \*   awaiting their callback, in the order of issue; the
                           \*   rows in the order of their setState calls; whether
                           \*   the store calls back in the order of the calls

schedVars == <<config, limits, phase, maxConcurrentFetches, statusPaths, valuePaths,
               commandPaths, queue, running, immediates, task, credChecks,
               isgIntervall, isgCommandIntervall, intervals, commands, CommandTimeout,
               timers, flushes, burst, failedCmds, nCmds, anyFailed, credBodies, connection,
               taskTimers, otherTimers, reboots, restarts, nReboots, lastFetch,
               flushResult, lastChange>>

storeVars == <<rec, object, stateVal, proc, started, overlap, storeErr>>

extractVars == <<nameTranslation, row, pass>>

vars == <<schedVars, storeVars, extractVars>>

-----------------------------------------------------------------------------
(* Bounds of the model *)

MaxEvents   == 4   \* Spec: calls of schedule() and setIsgCommands in one behaviour
FairEvents  == 3   \* FairSpec: the same
BatchEvents == 5   \* BatchSpec: the same
GateCmds    == 1   \* Spec, FairSpec: calls of setIsgCommands in one behaviour
MaxCmds     == 3   \* BatchSpec: calls of setIsgCommands in one behaviour
MaxN        == 2   \* configured maxConcurrentFetches ranges over 0..MaxN
MaxReconciles == 2 \* StoreSpec, BoundSpec: reconciles of the entity in one behaviour
HttpEvents  == 3   \* HttpSpec: calls of schedule() and setIsgCommands in one behaviour
PageEvents  == 3   \* PageSpec: calls of schedule() and setIsgCommands in one behaviour
MaxItems    == 2   \* PageSpec: rows or widgets of a page
LifeEvents  == 2   \* LifeSpec: calls of schedule(), setIsgCommands and rebootISG
MaxReboots  == 1   \* LifeSpec: calls of rebootISG in one behaviour
MaxRows     == 3   \* PassSpec: rows of a page
UnloadEvents == 5  \* UnloadSpec: calls of schedule(), setIsgCommands and rebootISG
RestartEvents == 4 \* RestartSpec: calls of schedule() and rebootISG
MaxRestarts == 2   \* RestartSpec: calls of rebootISG in one behaviour

DefaultMaxConcurrentFetches == 3

CmdNames  == {"A"}
CmdValues == {1, 2}

Max(S) == CHOOSE x \in S : \A y \in S : y <= x

TaskIds == 1..Max({MaxEvents, FairEvents, BatchEvents, HttpEvents, PageEvents, LifeEvents,
                    UnloadEvents, RestartEvents})

-----------------------------------------------------------------------------
(* JavaScript values.                                                      *)
(* A string is a sequence of one-character strings.  A finite number is a  *)
(* decimal m * 10^(-e), normalised (no trailing zero in the fraction).     *)
(* The numerals of the model have no exponent part and no radix prefix.    *)

Undefined == [t |-> "undefined"]
Null      == [t |-> "null"]
NaN       == [t |-> "nan"]
Infinity(sign) == [t |-> "inf", sign |-> sign]
Str(s)    == [t |-> "string", s |-> s]
Bool(b)   == [t |-> "boolean", b |-> b]
Obj(m)    == [t |-> "object", m |-> m]

RECURSIVE Normal(_, _)
Normal(m, e) == IF e > 0 /\ m % 10 = 0 THEN Normal(m \div 10, e - 1)
                ELSE [t |-> "number", m |-> m, e |-> e]

Num(n) == Normal(n, 0)

Digits == <<"0", "1", "2", "3", "4", "5", "6", "7", "8", "9">>
IsDigit(c) == \E i \in 1..10 : Digits[i] = c
DigitVal(c) == (CHOOSE i \in 1..10 : Digits[i] = c) - 1

Pow10(e) == IF e = 0 THEN 1 ELSE IF e = 1 THEN 10 ELSE IF e = 2 THEN 100 ELSE 1000

\* decimal digits of a natural number
RECURSIVE NatToStr(_)
NatToStr(n) == IF n < 10 THEN <<Digits[n + 1]>>
               ELSE Append(NatToStr(n \div 10), Digits[(n % 10) + 1])

\* the fraction digits of m * 10^(-e), e digits, leading zeros kept
RECURSIVE FracToStr(_, _)
FracToStr(f, e) == IF e = 0 THEN <<>>
                   ELSE Append(FracToStr(f \div 10, e - 1), Digits[(f % 10) + 1])

Abs(n) == IF n < 0 THEN 0 - n ELSE n

Text_undefined == <<"u", "n", "d", "e", "f", "i", "n", "e", "d">>
Text_null      == <<"n", "u", "l", "l">>
Text_NaN       == <<"N", "a", "N">>
Text_Infinity  == <<"I", "n", "f", "i", "n", "i", "t", "y">>
Text_Object    == <<"[", "o", "b", "j", "e", "c", "t", " ", "O", "b", "j", "e", "c", "t", "]">>

\* String(x)
String(x) ==
    CASE x.t = "undefined" -> Text_undefined
      [] x.t = "null"      -> Text_null
      [] x.t = "nan"       -> Text_NaN
      [] x.t = "inf"       -> (IF x.sign < 0 THEN <<"-">> ELSE <<>>) \o Text_Infinity
      [] x.t = "string"    -> x.s
      [] x.t = "boolean"   -> IF x.b THEN <<"t", "r", "u", "e">> ELSE <<"f", "a", "l", "s", "e">>
      [] x.t = "object"    -> Text_Object
      [] x.t = "number"    ->
            (IF x.m < 0 THEN <<"-">> ELSE <<>>)
               \o NatToStr(Abs(x.m) \div Pow10(x.e))
               \o (IF x.e > 0 THEN <<".">> \o FracToStr(Abs(x.m) % Pow10(x.e), x.e) ELSE <<>>)

IsSpace(c) == c = " "

RECURSIVE TrimLeft(_)
TrimLeft(s) == IF s # <<>> /\ IsSpace(Head(s)) THEN TrimLeft(Tail(s)) ELSE s

RECURSIVE TrimRight(_)
TrimRight(s) == IF s # <<>> /\ IsSpace(s[Len(s)]) THEN TrimRight(SubSeq(s, 1, Len(s) - 1))
                ELSE s

\* String.prototype.trim
Trim(s) == TrimRight(TrimLeft(s))

AllDigits(s) == \A i \in 1..Len(s) : IsDigit(s[i])

RECURSIVE DigitsVal(_)
DigitsVal(s) == IF s = <<>> THEN 0
                ELSE DigitsVal(SubSeq(s, 1, Len(s) - 1)) * 10 + DigitVal(s[Len(s)])

PointAt(s) == IF \E i \in 1..Len(s) : s[i] = "."
              THEN CHOOSE i \in 1..Len(s) : s[i] = "." /\ \A j \in 1..(i - 1) : s[j] # "."
              ELSE 0

\* an unsigned decimal literal: digits, digits.digits, digits. or .digits
UnsignedDecimal(s) ==
    LET p == PointAt(s)
        int == IF p = 0 THEN s ELSE SubSeq(s, 1, p - 1)
        frac == IF p = 0 THEN <<>> ELSE SubSeq(s, p + 1, Len(s))
    IN IF s # <<>> /\ AllDigits(int) /\ AllDigits(frac) /\ Len(int) + Len(frac) > 0
       THEN Normal(DigitsVal(int \o frac), Len(frac))
       ELSE NaN

Negate(x) == CASE x.t = "number" -> Normal(0 - x.m, x.e)
               [] x.t = "inf"    -> Infinity(0 - x.sign)
               [] OTHER          -> x

Unsigned(s) == IF s = Text_Infinity THEN Infinity(1) ELSE UnsignedDecimal(s)

\* Number(s) of a string: the StringNumericLiteral grammar (white space
\* trimmed, the empty string is 0, an optional sign, Infinity or a decimal)
StringToNumber(s) ==
    LET r == Trim(s)
    IN IF r = <<>> THEN Num(0)
       ELSE IF Head(r) = "-" THEN Negate(Unsigned(Tail(r)))
       ELSE IF Head(r) = "+" THEN Unsigned(Tail(r))
       ELSE Unsigned(r)

\* Number(x)
Number(x) ==
    CASE x.t = "undefined" -> NaN
      [] x.t = "null"      -> Num(0)
      [] x.t = "string"    -> StringToNumber(x.s)
      [] x.t = "boolean"   -> IF x.b THEN Num(1) ELSE Num(0)
      [] x.t = "object"    -> NaN
      [] OTHER             -> x

\* Number.isFinite(x)
IsFinite(x) == x.t = "number"

\* isNaN(x) of a number
IsNaN(x) == x.t = "nan"

\* a < b on numbers (false when either is NaN)
Less(a, b) ==
    CASE a.t = "nan" \/ b.t = "nan" -> FALSE
      [] a.t = "inf" /\ b.t = "inf" -> a.sign < b.sign
      [] a.t = "inf"                -> a.sign < 0
      [] b.t = "inf"                -> b.sign > 0
      [] OTHER -> a.m * Pow10(b.e) < b.m * Pow10(a.e)

-----------------------------------------------------------------------------
(* Configuration: the device address and the request timeout *)

RECURSIVE SplitDots(_)
\* s.split('.')
SplitDots(s) ==
    IF PointAt(s) = 0 THEN <<s>>
    ELSE <<SubSeq(s, 1, PointAt(s) - 1)>> \o SplitDots(SubSeq(s, PointAt(s) + 1, Len(s)))

\* (25[0-5]|2[0-4][0-9]|[01]?[0-9][0-9]?): one to three digits, at most 255
IsOctet(s) == Len(s) \in 1..3 /\ AllDigits(s) /\ DigitsVal(s) <= 255

\* ipformat of main (1224-1225)
MatchesIpFormat(s) ==
    LET parts == SplitDots(s)
    IN Len(parts) = 4 /\ \A i \in 1..4 : IsOctet(parts[i])

LabelChars == {"a", "b", "c", "d", "e", "f", "g", "h", "i", "j", "k", "l", "m",
               "n", "o", "p", "q", "r", "s", "t", "u", "v", "w", "x", "y", "z",
               "0", "1", "2", "3", "4", "5", "6", "7", "8", "9", "-"}

\* fqdnformat of main (1227): not starting with ://, 1 to 255 characters,
\* groups of 1 to 63 characters each closed by a dot, then a label of
\* [a-z0-9-] with an optional final dot, where label and dot together are not
\* digits only.  An address of at most 64 characters, as the model's are,
\* matches with one group when it matches at all.
MatchesFqdnFormat(s) ==
    /\ Len(s) \in 1..255
    /\ ~(Len(s) >= 3 /\ SubSeq(s, 1, 3) = <<":", "/", "/">>)
    /\ \E i \in 2..Len(s) :
          /\ s[i] = "."
          /\ i - 1 <= 63
          /\ LET rest == SubSeq(s, i + 1, Len(s))
                 label == IF rest # <<>> /\ rest[Len(rest)] = "."
                          THEN SubSeq(rest, 1, Len(rest) - 1) ELSE rest
             IN /\ label # <<>>
                /\ \A j \in 1..Len(label) : label[j] \in LabelChars
                /\ ~AllDigits(rest)

AddressCheckAlwaysOk(isgAddress) == "ok"

\* the address test of main (1229-1238): "empty" when the address is not set
\* or blank, "format" when it matches neither format, "ok" otherwise
AddressCheck(isgAddress) ==
    IF isgAddress.t # "string" \/ isgAddress.s = <<>> \/ Trim(isgAddress.s) = <<>>
    THEN "empty"
    ELSE IF ~MatchesIpFormat(isgAddress.s) /\ ~MatchesFqdnFormat(isgAddress.s)
    THEN "format"
    ELSE "ok"

DefaultRequestTimeout == 60000

TimerArmedAlways(requestTimeout) == TRUE

\* buildFetchOptions (159-183): whether the abort timer is armed.  The
\* configured value is used unless it is undefined, null or not a number,
\* then the default; a timer is set when the result is above 0.
TimerArmed(requestTimeout) ==
    LET num == Number(requestTimeout)
        configuredTimeout == IF requestTimeout.t \notin {"undefined", "null"} /\ ~IsNaN(num)
                             THEN num ELSE Num(DefaultRequestTimeout)
    IN Less(Num(0), configuredTimeout)

-----------------------------------------------------------------------------
(* Concurrency queue *)

UsedIds == {t \in TaskIds : task[t].st # "none"}

\* the bound on calls leaves room for k more
Room(k) == Cardinality(UsedIds) + nCmds + nReboots + k <= limits.events

CanAdmitNoLimit(r, q) == Len(q) > 0

\* the condition of runQueue's while loop
CanAdmit(r, q) == r < maxConcurrentFetches /\ Len(q) > 0

\* runQueue(): admit queued tasks while a slot is free.  item.fn() runs in a
\* microtask of the same turn and goes as far as its await fetch(), so an
\* admitted task is a page fetch in flight (SetGate arms its abort timer).
RECURSIVE runQueue(_)
runQueue(s) ==
    IF CanAdmit(s.running, s.queue)
    THEN runQueue([queue   |-> Tail(s.queue),
                   running |-> s.running + 1,
                   task    |-> [s.task EXCEPT ![Head(s.queue)].st = "fetching"]])
    ELSE s

scheduleAtFront(s, kind) ==
    LET t == CHOOSE x \in {y \in TaskIds : s.task[y].st = "none"} :
                 \A y \in TaskIds : s.task[y].st = "none" => x <= y
    IN runQueue([queue   |-> <<t>> \o s.queue,
                 running |-> s.running,
                 task    |-> [s.task EXCEPT ![t] = [st |-> "queued", kind |-> kind,
                                                          status |-> ""]]])

\* schedule(fn): push the closure, then runQueue()
schedule(s, kind) ==
    LET t == CHOOSE x \in {y \in TaskIds : s.task[y].st = "none"} :
                 \A y \in TaskIds : s.task[y].st = "none" => x <= y
    IN runQueue([queue   |-> Append(s.queue, t),
                 running |-> s.running,
                 task    |-> [s.task EXCEPT ![t] = [st |-> "queued", kind |-> kind,
                                                          status |-> ""]]])

\* paths.forEach(item => schedule(() => getIsgX(item)))
RECURSIVE scheduleAll(_, _)
scheduleAll(s, kinds) ==
    IF kinds = <<>> THEN s
    ELSE scheduleAll(schedule(s, Head(kinds)), Tail(kinds))

Gate == [queue |-> queue, running |-> running, task |-> task]

\* the gate after schedule() / runQueue(); getHTML of every task admitted on
\* the way has called buildFetchOptions, which arms its abort timer
SetGate(s) ==
    /\ queue' = s.queue
    /\ running' = s.running
    /\ task' = s.task
    /\ taskTimers' = taskTimers \cup
          {t \in TaskIds : /\ task[t].st # "fetching"
                           /\ s.task[t].st = "fetching"
                           /\ TimerArmed(config.requestTimeout)}

KindsOf(paths, kind) == [i \in 1..Len(paths) |-> kind]

-----------------------------------------------------------------------------
(* Scheduling side: initial state and actions *)

NoTask == [st |-> "none", kind |-> "none", status |-> ""]

\* split(';').filter(Boolean) of a path list: the model's configurations name
\* at most one page of each kind, so the list is empty or holds that page
SplitPaths(str) == IF str = "" THEN <<>> ELSE <<str>>

NoChange == [id |-> <<>>, state |-> <<>>]

NoFetch == [outcome |-> "none", doc |-> FALSE, login |-> FALSE, page |-> <<>>,
            processed |-> <<>>]

\* lastFetch, flushResult and lastChange are history variables: they are
\* written only in the specifications whose properties read them
Record(what, new, old) == IF what \in limits.history THEN new ELSE old

InitSched ==
    /\ phase = "loaded"
    /\ statusPaths = <<>>
    /\ valuePaths = <<>>
    /\ commandPaths = <<>>
    /\ maxConcurrentFetches = DefaultMaxConcurrentFetches
    /\ queue = <<>>
    /\ running = 0
    /\ immediates = 0
    /\ task = [t \in TaskIds |-> NoTask]
    /\ credChecks = 0
    /\ isgIntervall = 0
    /\ isgCommandIntervall = 0
    /\ intervals = {}
    /\ commands = <<>>
    /\ CommandTimeout = 0
    /\ timers = {}
    /\ flushes = {}
    /\ burst = <<>>
    /\ failedCmds = {}
    /\ nCmds = 0
    /\ anyFailed = FALSE
    /\ credBodies = 0
    /\ connection = "unset"
    /\ taskTimers = {}
    /\ otherTimers = [cred |-> 0, flush |-> {}, reboot |-> 0]
    /\ reboots = 0
    /\ restarts = 0
    /\ nReboots = 0
    /\ lastFetch = NoFetch
    /\ flushResult = "none"
    /\ lastChange = NoChange

\* main() up to its first await (1207-1253): with an address that is not set
\* or blank the connection flag is set false and main returns, with one of
\* the wrong format it returns, otherwise it calls getHTML('1,0') directly,
\* not through schedule().  flag is info.connection when main is entered.
main(flag) ==
    LET check == AddressCheck(config.isgAddress)
    IN /\ connection' = IF check = "empty" THEN FALSE ELSE flag
       /\ credChecks' = IF check = "ok" THEN credChecks + 1 ELSE credChecks
       /\ otherTimers' = IF check = "ok" /\ TimerArmed(config.requestTimeout)
                         THEN [otherTimers EXCEPT !.cred = @ + 1] ELSE otherTimers

SystemConfigOutcomes == {"obj", "err", "none"}

\* ready() (1338-1389): the path lists are read at once; the callback of
\* getForeignObject returns on an error and does nothing without an object,
\* otherwise it resets info.connection to false, reads the concurrency
\* configuration and calls main()
Ready ==
    /\ phase = "loaded"
    /\ commandPaths' = SplitPaths(config.isgCommandPaths)
    /\ valuePaths' = SplitPaths(config.isgValuePaths)
    /\ statusPaths' = SplitPaths(config.isgStatusPaths)
    /\ \E sys \in SystemConfigOutcomes :
          IF sys = "obj"
          THEN /\ LET cfgVal == config.maxConcurrentFetches
                  IN maxConcurrentFetches' =
                         IF cfgVal > 0 THEN cfgVal ELSE DefaultMaxConcurrentFetches
               /\ phase' = "ready"
               /\ main(FALSE)
          ELSE /\ phase' = "failed"
               /\ UNCHANGED <<maxConcurrentFetches, connection, credChecks, otherTimers>>
    /\ UNCHANGED <<config, limits, lastChange, queue, running, immediates, task, isgIntervall,
                   isgCommandIntervall, intervals, commands, CommandTimeout, timers, flushes,
                   burst, failedCmds, nCmds, anyFailed, credBodies, taskTimers,
                   reboots, restarts, nReboots, lastFetch, flushResult>>
    /\ UNCHANGED storeVars
    /\ UNCHANGED extractVars

\* an interval timer
Interval(kind, id) == [kind |-> kind, id |-> id]

\* an interval timer of the kind is active
Polling(kind) == \E tm \in intervals : tm.kind = kind

setIntervalsKeepingOld(ts) ==
    ts \cup {Interval("values", isgIntervall + 1),
             Interval("commands", isgCommandIntervall + 1)}

\* the active interval timers after main has cleared the timers the two
\* variables hold, if any, and set new ones (1286-1311)
setIntervals(ts) ==
    (ts \ {Interval("values", isgIntervall), Interval("commands", isgCommandIntervall)})
        \cup {Interval("values", isgIntervall + 1),
              Interval("commands", isgCommandIntervall + 1)}

\* main() after the credential check (1271-1312): the initial fetches and
\* the two intervals
mainContinue ==
    /\ Room(Len(statusPaths) + Len(valuePaths) + Len(commandPaths))
    /\ SetGate(scheduleAll(Gate,
           KindsOf(statusPaths, "status") \o KindsOf(valuePaths, "values")
               \o KindsOf(commandPaths, "commands")))
    /\ isgIntervall' = isgIntervall + 1
    /\ isgCommandIntervall' = isgCommandIntervall + 1
    /\ intervals' = setIntervals(intervals)

FetchOutcomes == {"200", "non200", "error", "abort"}

ReturnsDocumentAnyStatus(status) == status \in {"200", "non200"}

\* getHTML (378-380): only status 200 goes on to read the body
ReturnsDocument(status) == status = "200"

\* the fetch of the credential check is answered, fails or is aborted by its
\* timer.  On 200 getHTML clears the timer and reads the body; otherwise it
\* clears the timer, sets info.connection false and throws, main logs the
\* error (1269) and goes on to the initial fetches.
CredFetchDone ==
    /\ credChecks > 0
    /\ credChecks' = credChecks - 1
    /\ \E outcome \in FetchOutcomes :
          /\ outcome = "abort" => otherTimers.cred > 0
          /\ otherTimers' = [otherTimers EXCEPT !.cred = IF @ > 0 THEN @ - 1 ELSE 0]
          /\ IF ReturnsDocument(outcome)
             THEN /\ credBodies' = credBodies + 1
                  /\ UNCHANGED <<queue, running, task, taskTimers, isgIntervall,
                                 isgCommandIntervall, intervals, connection, lastFetch>>
             ELSE /\ connection' = FALSE
                  /\ lastFetch' = Record("fetch", [NoFetch EXCEPT !.outcome = outcome], lastFetch)
                  /\ mainContinue
                  /\ UNCHANGED credBodies
    /\ UNCHANGED <<config, limits, lastChange, phase, maxConcurrentFetches, statusPaths,
                   valuePaths, commandPaths, immediates, commands, CommandTimeout,
                   timers, flushes, burst, failedCmds, nCmds, anyFailed, reboots,
                   restarts, nReboots, flushResult>>
    /\ UNCHANGED storeVars
    /\ UNCHANGED extractVars

CredOutcomes == {"ok", "login", "fail"}

FlagAfterCredCheckAlways(outcome) == TRUE

\* info.connection after the body stage of the credential check: getHTML
\* sets it true with the body (381) and false when reading fails (393); for
\* the login page main sets it false again (1263), otherwise true (1267)
FlagAfterCredCheck(outcome) == outcome = "ok"

\* the body of the credential check has been read, or reading it failed:
\* a login page sets info.connection false and main returns; success and a
\* thrown getHTML (caught at 1269) both go on to the initial fetches and
\* the two intervals
MainCredDone ==
    /\ credBodies > 0
    /\ credBodies' = credBodies - 1
    /\ \E outcome \in CredOutcomes :
          /\ lastFetch' = Record("fetch",
                 IF outcome = "fail" THEN [NoFetch EXCEPT !.outcome = "body"]
                 ELSE [NoFetch EXCEPT !.outcome = "200", !.doc = TRUE,
                                      !.login = (outcome = "login")],
                 lastFetch)
          /\ connection' = FlagAfterCredCheck(outcome)
          /\ IF outcome = "login"
             THEN UNCHANGED <<queue, running, task, taskTimers, isgIntervall,
                              isgCommandIntervall, intervals>>
             ELSE mainContinue
    /\ UNCHANGED <<config, limits, lastChange, phase, maxConcurrentFetches, statusPaths,
                   valuePaths, commandPaths, immediates, credChecks, commands,
                   CommandTimeout, timers, flushes, burst, failedCmds, nCmds,
                   anyFailed, otherTimers, reboots, restarts, nReboots,
                   flushResult>>
    /\ UNCHANGED storeVars
    /\ UNCHANGED extractVars

\* the callback of isgIntervall
IsgIntervallTick ==
    /\ Polling("values")
    /\ Room(Len(valuePaths) + Len(statusPaths))
    /\ SetGate(scheduleAll(Gate,
           KindsOf(valuePaths, "values") \o KindsOf(statusPaths, "status")))
    /\ UNCHANGED <<config, limits, lastChange, phase, maxConcurrentFetches, statusPaths,
                   valuePaths, commandPaths, immediates, credChecks, isgIntervall,
                   isgCommandIntervall, intervals, commands, CommandTimeout, timers, flushes,
                   burst, failedCmds, nCmds, anyFailed, credBodies, connection,
                   otherTimers, reboots, restarts, nReboots, lastFetch,
                   flushResult>>
    /\ UNCHANGED storeVars
    /\ UNCHANGED extractVars

\* the callback of isgCommandIntervall
IsgCommandIntervallTick ==
    /\ Polling("commands")
    /\ Room(Len(commandPaths))
    /\ SetGate(scheduleAll(Gate, KindsOf(commandPaths, "commands")))
    /\ UNCHANGED <<config, limits, lastChange, phase, maxConcurrentFetches, statusPaths,
                   valuePaths, commandPaths, immediates, credChecks, isgIntervall,
                   isgCommandIntervall, intervals, commands, CommandTimeout, timers, flushes,
                   burst, failedCmds, nCmds, anyFailed, credBodies, connection,
                   otherTimers, reboots, restarts, nReboots, lastFetch,
                   flushResult>>
    /\ UNCHANGED storeVars
    /\ UNCHANGED extractVars

RunningAfterTaskOnSuccessOnly(r, outcome) == IF outcome = "200" THEN r - 1 ELSE r

\* .finally(() => { running--; setImmediate(runQueue) }) runs for a resolved
\* and for a rejected chain alike
RunningAfterTask(r, outcome) == r - 1

TimersAfterFetchSuccessOnly(ts, t, outcome) ==
    IF outcome \in {"200", "abort"} THEN ts \ {t} ELSE ts

\* built.clearTimeout() after the awaited fetch (376) and in the catch (387)
TimersAfterFetch(ts, t, outcome) == ts \ {t}

\* the rows or widgets of a page: one yields its record, or raises an error
\* while it is processed
Items == {"ok", "throws"}

Pages(n) == UNION {[1..k -> Items] : k \in 0..n}

RECURSIVE RowsUntilThrow(_, _)
\* getIsgStatus (410-462) and getIsgValues (481-543): the rows are walked
\* inside the one try block of the function, so an error ends the walk
RowsUntilThrow(page, i) ==
    IF i > Len(page) \/ page[i] = "throws" THEN <<>>
    ELSE <<i>> \o RowsUntilThrow(page, i + 1)

RECURSIVE WidgetsCaught(_, _)
\* getIsgCommands (887-1126): every input is processed in a try block of its
\* own, an error skips that input
WidgetsCaught(page, i) ==
    IF i > Len(page) THEN <<>>
    ELSE (IF page[i] = "ok" THEN <<i>> ELSE <<>>) \o WidgetsCaught(page, i + 1)

\* the items of a page for which updateState / createISGCommands is called
Extract(kind, page) ==
    IF kind = "commands" THEN WidgetsCaught(page, 1) ELSE RowsUntilThrow(page, 1)

ReconciledAnyway(doc, kind, page) == Extract(kind, page)

\* const $ = await getHTML(sidePath); if ($) { ... }: the page is walked only
\* when getHTML has returned its document; when it throws, the catch of the
\* extractor logs and nothing else
Reconciled(doc, kind, page) == IF doc THEN Extract(kind, page) ELSE <<>>

\* the fetch of an admitted task is answered, fails or is aborted by its
\* timer.  On 200 getHTML clears the timer and reads the body.  Otherwise it
\* clears the timer, sets info.connection false and throws;
\* getIsgStatus/Values/Commands catch every error, the promise chain of
\* runQueue settles the future and releases the slot.
FetchDone(t) ==
    /\ \E outcome \in FetchOutcomes :
          /\ task[t].st = "fetching"
          /\ outcome = "abort" => t \in taskTimers
          /\ taskTimers' = TimersAfterFetch(taskTimers, t, outcome)
          /\ IF ReturnsDocument(outcome)
             THEN /\ task' = [task EXCEPT ![t].st = "body", ![t].status = outcome]
                  /\ UNCHANGED <<anyFailed, running, immediates, connection, lastFetch>>
             ELSE /\ task' = [task EXCEPT ![t].st = "done"]
                  /\ anyFailed' = (anyFailed \/ outcome # "200")
                  /\ connection' = FALSE
                  /\ \E page \in Pages(limits.items) :
                        lastFetch' = Record("fetch",
                            [NoFetch EXCEPT !.outcome = outcome,
                                !.processed = Reconciled(FALSE, task[t].kind, page)],
                            lastFetch)
                  /\ running' = RunningAfterTask(running, outcome)
                  /\ immediates' = immediates + (running - running')
    /\ UNCHANGED <<config, limits, lastChange, phase, maxConcurrentFetches, statusPaths,
                   valuePaths, commandPaths, queue, credChecks, isgIntervall,
                   isgCommandIntervall, intervals, commands, CommandTimeout, timers, flushes,
                   burst, failedCmds, nCmds, credBodies, otherTimers, reboots,
                   restarts, nReboots, flushResult>>
    /\ UNCHANGED storeVars
    /\ UNCHANGED extractVars

BodyOutcomes == {"text", "error"}

\* res.text() of an admitted task's page settles.  With the body getHTML
\* sets info.connection true and returns the document, the extractor walks
\* it and the task ends; without it getHTML sets info.connection false and
\* throws, and the task ends in the extractor's catch.
BodyDone(t) ==
    /\ task[t].st = "body"
    /\ task' = [task EXCEPT ![t].st = "done", ![t].status = ""]
    /\ \E outcome \in BodyOutcomes :
          /\ IF outcome = "text"
             THEN \E page \in Pages(limits.items) :
                     /\ connection' = TRUE
                     /\ lastFetch' = Record("fetch", [outcome |-> task[t].status, doc |-> TRUE,
                                             login |-> FALSE, page |-> page,
                                             processed |-> Reconciled(TRUE, task[t].kind, page)],
                                            lastFetch)
             ELSE /\ connection' = FALSE
                  /\ lastFetch' = Record("fetch", [NoFetch EXCEPT !.outcome = "body"], lastFetch)
          /\ anyFailed' = (anyFailed \/ outcome # "text")
          /\ running' = RunningAfterTask(running, IF outcome = "text" THEN "200" ELSE "error")
          /\ immediates' = immediates + (running - running')
    /\ UNCHANGED <<config, limits, lastChange, phase, maxConcurrentFetches, statusPaths,
                   valuePaths, commandPaths, queue, credChecks, isgIntervall,
                   isgCommandIntervall, intervals, commands, CommandTimeout, timers, flushes,
                   burst, failedCmds, nCmds, credBodies, taskTimers, otherTimers,
                   reboots, restarts, nReboots, flushResult>>
    /\ UNCHANGED storeVars
    /\ UNCHANGED extractVars

\* setImmediate(runQueue) fires
RunQueueImmediate ==
    /\ immediates > 0
    /\ immediates' = immediates - 1
    /\ SetGate(runQueue(Gate))
    /\ UNCHANGED <<config, limits, lastChange, phase, maxConcurrentFetches, statusPaths,
                   valuePaths, commandPaths, credChecks, isgIntervall,
                   isgCommandIntervall, intervals, commands, CommandTimeout, timers, flushes,
                   burst, failedCmds, nCmds, anyFailed, credBodies, connection,
                   otherTimers, reboots, restarts, nReboots, lastFetch,
                   flushResult>>
    /\ UNCHANGED storeVars
    /\ UNCHANGED extractVars

-----------------------------------------------------------------------------
(* Command sender, state changes, reboot *)

Armed(id) == \E tm \in timers : tm.id = id

\* clearTimeout(handle)
clearTimeout(ts, id) == {tm \in ts : tm.id # id}

\* setIsgCommands(strKey, strValue): push, serialise the batch as it is now,
\* replace the debounce timer.  The field n tags the command for the
\* properties; it is not part of the payload sent.
setIsgCommands(strKey, strValue) ==
    LET newCommand == [name |-> strKey, value |-> strValue, n |-> nCmds + 1]
        payload == Append(commands, newCommand)
    IN /\ commands' = payload
       /\ timers' = clearTimeout(timers, CommandTimeout)
                        \cup {[id |-> nCmds + 1, payload |-> payload]}
       /\ CommandTimeout' = nCmds + 1
       /\ burst' = IF Armed(CommandTimeout) THEN Append(burst, newCommand)
                   ELSE <<newCommand>>
       /\ nCmds' = nCmds + 1

\* rebootISG(): GET reboot.php, not awaited
rebootISG ==
    /\ reboots' = reboots + 1
    /\ otherTimers' = IF TimerArmed(config.requestTimeout)
                      THEN [otherTimers EXCEPT !.reboot = @ + 1] ELSE otherTimers

\* the ids of the states a behaviour can write to, as sequences of segments
RebootId == <<"ISGReboot">>
CommandIds == {<<"settings", n>> : n \in CmdNames}

\* the state of a notification: no state (the state was deleted), or a
\* value with its ack flag
NoState == [present |-> FALSE, val |-> 0, ack |-> FALSE]

StateInputs == {NoState} \cup [present : {TRUE}, val : CmdValues, ack : BOOLEAN]

\* main subscribes to ISGReboot when it is entered (1220) and to every state
\* of the adapter once the address has passed its test (1249)
Subscribed(id) ==
    /\ phase = "ready"
    /\ id = RebootId \/ AddressCheck(config.isgAddress) = "ok"

IgnoredNever(state) == FALSE

\* if (!state || state.ack) return (1325)
Ignored(state) == ~state.present \/ state.ack

\* stateChange(id, state) (1323-1337)
stateChange ==
    /\ \E id \in limits.ids, state \in StateInputs :
          /\ Subscribed(id)
          /\ lastChange' = Record("change", [id |-> id, state |-> state], lastChange)
          /\ LET command == id[Len(id)]
             IN IF Ignored(state)
                THEN UNCHANGED <<commands, timers, CommandTimeout, burst, nCmds, reboots,
                                 otherTimers, restarts, nReboots>>
                ELSE IF command = "ISGReboot"
                THEN /\ nReboots < limits.reboots
                     /\ Room(1)
                     /\ nReboots' = nReboots + 1
                     /\ rebootISG
                     /\ restarts' = restarts + 1
                     /\ UNCHANGED <<commands, timers, CommandTimeout, burst, nCmds>>
                ELSE /\ nCmds < limits.cmds
                     /\ Room(1)
                     /\ setIsgCommands(command, state.val)
                     /\ UNCHANGED <<reboots, otherTimers, restarts, nReboots>>
    /\ UNCHANGED <<config, limits, phase, maxConcurrentFetches, statusPaths,
                   valuePaths, commandPaths, queue, running, immediates, task,
                   credChecks, isgIntervall, isgCommandIntervall, intervals, flushes,
                   failedCmds, anyFailed, credBodies, connection, taskTimers,
                   lastFetch, flushResult>>
    /\ UNCHANGED storeVars
    /\ UNCHANGED extractVars

\* the debounce timer fires: POST the payload captured when it was armed
DebounceFire ==
    /\ \E tm \in timers :
          /\ timers' = timers \ {tm}
          /\ flushes' = flushes \cup {tm}
          /\ otherTimers' = IF TimerArmed(config.requestTimeout)
                            THEN [otherTimers EXCEPT !.flush = @ \cup {tm.id}]
                            ELSE otherTimers
    /\ UNCHANGED <<config, limits, lastChange, phase, maxConcurrentFetches, statusPaths,
                   valuePaths, commandPaths, queue, running, immediates, task,
                   credChecks, isgIntervall, isgCommandIntervall, intervals, commands,
                   CommandTimeout, burst, failedCmds, nCmds, anyFailed, credBodies,
                   connection, taskTimers, reboots, restarts, nReboots, lastFetch,
                   flushResult>>
    /\ UNCHANGED storeVars
    /\ UNCHANGED extractVars

Tags(payload) == {payload[i].n : i \in 1..Len(payload)}

ReadsBackAlways(outcome) == TRUE

\* if (res && res.status == 200) (1163)
ReadsBack(outcome) == outcome = "200"

\* the POST is answered, fails or is aborted by its timer: read back on 200,
\* then commands = [] in every case
FlushDone ==
    /\ \E f \in flushes, outcome \in FetchOutcomes :
          /\ outcome = "abort" => f.id \in otherTimers.flush
          /\ otherTimers' = [otherTimers EXCEPT !.flush = @ \ {f.id}]
          /\ flushes' = flushes \ {f}
          /\ flushResult' = Record("flush", outcome, flushResult)
          /\ IF ReadsBack(outcome)
             THEN /\ Room(Len(commandPaths))
                  /\ SetGate(scheduleAll(Gate, KindsOf(commandPaths, "commands")))
             ELSE UNCHANGED <<queue, running, task, taskTimers>>
          /\ failedCmds' = IF outcome = "200" THEN failedCmds
                           ELSE failedCmds \cup Tags(f.payload)
    /\ commands' = <<>>
    /\ UNCHANGED <<config, limits, lastChange, phase, maxConcurrentFetches, statusPaths,
                   valuePaths, commandPaths, immediates, credChecks, isgIntervall,
                   isgCommandIntervall, intervals, CommandTimeout, timers, burst, nCmds,
                   anyFailed, credBodies, connection, reboots, restarts, nReboots,
                   lastFetch>>
    /\ UNCHANGED storeVars
    /\ UNCHANGED extractVars

\* the reboot request is answered, fails or is aborted by its timer
RebootDone ==
    /\ reboots > 0
    /\ reboots' = reboots - 1
    /\ \E outcome \in FetchOutcomes :
          /\ outcome = "abort" => otherTimers.reboot > 0
          /\ otherTimers' = [otherTimers EXCEPT !.reboot = IF @ > 0 THEN @ - 1 ELSE 0]
    /\ UNCHANGED <<config, limits, lastChange, phase, maxConcurrentFetches, statusPaths,
                   valuePaths, commandPaths, queue, running, immediates, task,
                   credChecks, isgIntervall, isgCommandIntervall, intervals, commands,
                   CommandTimeout, timers, flushes, burst, failedCmds, nCmds,
                   anyFailed, credBodies, connection, taskTimers, restarts,
                   nReboots, lastFetch, flushResult>>
    /\ UNCHANGED storeVars
    /\ UNCHANGED extractVars

\* setTimeout(main, 60000) of a reboot fires
MainRestart ==
    /\ restarts > 0
    /\ restarts' = restarts - 1
    /\ main(connection)
    /\ UNCHANGED <<config, limits, lastChange, phase, maxConcurrentFetches, statusPaths,
                   valuePaths, commandPaths, queue, running, immediates, task,
                   isgIntervall, isgCommandIntervall, intervals, commands, CommandTimeout,
                   timers, flushes, burst, failedCmds, nCmds, anyFailed,
                   credBodies, taskTimers, reboots, nReboots, lastFetch,
                   flushResult>>
    /\ UNCHANGED storeVars
    /\ UNCHANGED extractVars

\* the interval timers left active by unload (1392-1397): those the two
\* variables do not hold
clearIntervals(ts, handles) == ts \ handles

\* unload(callback) (1390-1406): the interval timers and the debounce timer
\* the three variables hold are cleared; the framework delivers no state
\* change to an adapter it has unloaded
unload ==
    /\ phase \in {"ready", "failed"}
    /\ phase' = "unloaded"
    /\ intervals' = clearIntervals(intervals, {Interval("values", isgIntervall),
                                               Interval("commands", isgCommandIntervall)})
    /\ timers' = clearTimeout(timers, CommandTimeout)
    /\ UNCHANGED <<config, limits, lastChange, maxConcurrentFetches, statusPaths,
                   valuePaths, commandPaths, queue, running, immediates, task,
                   credChecks, isgIntervall, isgCommandIntervall, commands,
                   CommandTimeout, flushes, burst, failedCmds, nCmds, anyFailed,
                   credBodies, connection, taskTimers, otherTimers, reboots, restarts,
                   nReboots, lastFetch, flushResult>>
    /\ UNCHANGED storeVars
    /\ UNCHANGED extractVars

-----------------------------------------------------------------------------
(* Specifications of the scheduling side *)

\* no translation table: translateName gives every name back as it is
NoTranslation == <<>>

\* the extraction side at rest
ExtractIdle ==
    /\ nameTranslation = NoTranslation
    /\ row = [page |-> "none"]
    /\ pass = [rows |-> <<>>]

\* the object-store side at rest, for the specifications of the scheduling side
StoreIdle ==
    /\ ExtractIdle
    /\ rec = <<>>
    /\ object = <<>>
    /\ stateVal = <<>>
    /\ proc = <<>>
    /\ started = 0
    /\ overlap = FALSE
    /\ storeErr = FALSE

Configs(sets) ==
    [maxConcurrentFetches : 0..MaxN,
     isgStatusPaths : sets.status, isgValuePaths : sets.values,
     isgCommandPaths : sets.commands,
     isgAddress : sets.address, requestTimeout : sets.timeout]

IpAddress == Str(<<"1", ".", "2", ".", "3", ".", "4">>)

\* Spec: configurations with at most one value page and one command page, a
\* valid address and the default timeout; writes to command states only
Init ==
    /\ InitSched
    /\ StoreIdle
    /\ config \in Configs([status |-> {""}, values |-> {"", "values"},
                            commands |-> {"", "commands"},
                            address |-> {IpAddress}, timeout |-> {Undefined}])
    /\ limits = [events |-> MaxEvents, cmds |-> GateCmds, reboots |-> 0,
                 ids |-> CommandIds, items |-> 0,
                 history |-> {}]

Next ==
    \/ Ready
    \/ CredFetchDone
    \/ MainCredDone
    \/ IsgIntervallTick
    \/ IsgCommandIntervallTick
    \/ \E t \in TaskIds : FetchDone(t)
    \/ \E t \in TaskIds : BodyDone(t)
    \/ RunQueueImmediate
    \/ stateChange
    \/ DebounceFire
    \/ FlushDone

Spec == Init /\ [][Next]_vars

\* Node runs every pending setImmediate callback; that every admitted task
\* terminates is the proviso of the liveness claims
InitFair ==
    /\ InitSched
    /\ StoreIdle
    /\ config \in Configs([status |-> {"", "status"}, values |-> {"values"},
                            commands |-> {"commands"},
                            address |-> {IpAddress}, timeout |-> {Undefined}])
    /\ limits = [events |-> FairEvents, cmds |-> GateCmds, reboots |-> 0,
                 ids |-> CommandIds, items |-> 0,
                 history |-> {}]

FairSpec ==
    /\ InitFair
    /\ [][Next]_vars
    /\ WF_vars(RunQueueImmediate)
    /\ \A t \in TaskIds : WF_vars(FetchDone(t))
    /\ \A t \in TaskIds : WF_vars(BodyDone(t))

\* BatchSpec: a configuration with command pages only, more commands
InitBatch ==
    /\ InitSched
    /\ StoreIdle
    /\ config \in Configs([status |-> {""}, values |-> {""}, commands |-> {"commands"},
                            address |-> {IpAddress}, timeout |-> {Undefined}])
    /\ limits = [events |-> BatchEvents, cmds |-> MaxCmds, reboots |-> 0,
                 ids |-> CommandIds, items |-> 0,
                 history |-> {}]

BatchSpec == InitBatch /\ [][Next]_vars

\* BatchFairSpec: an armed debounce timer fires unless it is cleared, and
\* every save.php POST ends
BatchFairSpec ==
    /\ InitBatch
    /\ [][Next]_vars
    /\ WF_vars(DebounceFire)
    /\ WF_vars(FlushDone)

\* request timeouts: not set (the default), 0, a positive number, a text
\* that is no number, a negative number
TimeoutInputs == {Undefined, Num(0), Num(5), Str(<<"a">>), Num(0 - 1)}

\* HttpSpec: every kind of request timeout
InitHttp ==
    /\ InitSched
    /\ StoreIdle
    /\ config \in {c \in Configs([status |-> {""}, values |-> {"", "values"},
                                  commands |-> {"commands"},
                                  address |-> {IpAddress}, timeout |-> TimeoutInputs]) :
                      c.maxConcurrentFetches = MaxN}
    /\ limits = [events |-> HttpEvents, cmds |-> GateCmds, reboots |-> 0,
                 ids |-> CommandIds, items |-> 0,
                 history |-> {"fetch", "flush"}]

HttpSpec == InitHttp /\ [][Next]_vars

\* TimeoutSpec: a request timeout above 0.  Node runs every pending
\* setImmediate callback, and an armed abort timer expires unless it is
\* cleared first, so a fetch whose timer is armed ends; whether and when the
\* device answers or sends the rest of a body is left open.
InitTimeout ==
    /\ InitHttp
    /\ TimerArmed(config.requestTimeout)

TimeoutSpec ==
    /\ InitTimeout
    /\ [][Next]_vars
    /\ WF_vars(RunQueueImmediate)
    /\ \A t \in TaskIds : WF_vars(t \in taskTimers /\ FetchDone(t))

\* PageSpec: pages with rows or widgets, two of the three kinds of page
\* configured
InitPage ==
    /\ InitSched
    /\ StoreIdle
    /\ config \in {c \in Configs([status |-> {"", "status"}, values |-> {"", "values"},
                                  commands |-> {"", "commands"},
                                  address |-> {IpAddress}, timeout |-> {Undefined}]) :
                      /\ c.maxConcurrentFetches = MaxN
                      /\ Cardinality({k \in {c.isgStatusPaths, c.isgValuePaths,
                                              c.isgCommandPaths} : k # ""}) = 2}
    /\ limits = [events |-> PageEvents, cmds |-> GateCmds, reboots |-> 0,
                 ids |-> CommandIds, items |-> MaxItems,
                 history |-> {"fetch"}]

PageSpec == InitPage /\ [][Next]_vars

\* device addresses: not set, empty, blank, IPv4, an octet above 255, three
\* octets, a name without dot, a host name
AddressInputs ==
    {Undefined, Str(<<>>), Str(<<" ">>), IpAddress,
     Str(<<"1", ".", "2", ".", "3", ".", "2", "5", "6">>),
     Str(<<"1", ".", "2", ".", "3">>),
     Str(<<"i", "s", "g">>),
     Str(<<"i", "s", "g", ".", "l", "a", "n">>)}

\* LifeSpec: every kind of address, writes to ISGReboot as well
InitLife ==
    /\ InitSched
    /\ StoreIdle
    /\ config \in {c \in Configs([status |-> {""}, values |-> {"values"},
                                  commands |-> {""},
                                  address |-> AddressInputs,
                                  timeout |-> {Undefined}]) :
                      c.maxConcurrentFetches = MaxN}
    /\ limits = [events |-> LifeEvents, cmds |-> GateCmds, reboots |-> MaxReboots,
                 ids |-> CommandIds \cup {RebootId}, items |-> 0,
                 history |-> {"change"}]

NextLife ==
    \/ Next
    \/ RebootDone
    \/ MainRestart

LifeSpec == InitLife /\ [][NextLife]_vars

\* UnloadSpec: a valid address and a value page, writes to ISGReboot and to
\* a command state, and the unload of the adapter
InitUnload ==
    /\ InitSched
    /\ StoreIdle
    /\ config \in {c \in Configs([status |-> {""}, values |-> {"values"},
                                  commands |-> {""},
                                  address |-> {IpAddress},
                                  timeout |-> {Undefined}]) :
                      c.maxConcurrentFetches = MaxN}
    /\ limits = [events |-> UnloadEvents, cmds |-> GateCmds, reboots |-> MaxReboots,
                 ids |-> CommandIds \cup {RebootId}, items |-> 0,
                 history |-> {}]

NextUnload ==
    \/ NextLife
    \/ unload

UnloadSpec == InitUnload /\ [][NextUnload]_vars

\* RestartSpec: a valid address and a value page, writes to ISGReboot only
InitRestart ==
    /\ InitSched
    /\ StoreIdle
    /\ config \in {c \in Configs([status |-> {""}, values |-> {"values"},
                                  commands |-> {""},
                                  address |-> {IpAddress},
                                  timeout |-> {Undefined}]) :
                      c.maxConcurrentFetches = 1}
    /\ limits = [events |-> RestartEvents, cmds |-> 0, reboots |-> MaxRestarts,
                 ids |-> {RebootId}, items |-> 0,
                 history |-> {}]

NextRestart ==
    \/ Ready
    \/ CredFetchDone
    \/ MainCredDone
    \/ IsgIntervallTick
    \/ IsgCommandIntervallTick
    \/ \E t \in TaskIds : FetchDone(t)
    \/ \E t \in TaskIds : BodyDone(t)
    \/ RunQueueImmediate
    \/ stateChange
    \/ RebootDone
    \/ MainRestart
    \/ unload

RestartSpec == InitRestart /\ [][NextRestart]_vars

-----------------------------------------------------------------------------
(* Object-store side: createISGCommands, updateState, safeSetState          *)

T_N      == <<"N">>
T_number == <<"n", "u", "m", "b", "e", "r">>
T_unit   == <<"C">>
T_state  == <<"s", "t", "a", "t", "e">>
T_value  == <<"v", "a", "l", "u", "e">>

Procs == {"poll", "readback"}

NoObject == [none |-> TRUE]
Exists(o) == "common" \in DOMAIN o

\* c[k] of a JavaScript object
Get(c, k) == IF k \in DOMAIN c THEN c[k] ELSE Undefined

\* c with key k set to v
Put(c, k, v) == [x \in DOMAIN c \cup {k} |-> IF x = k THEN v ELSE c[x]]

\* delete c[k]
Delete(c, k) == [x \in DOMAIN c \ {k} |-> c[x]]

BoundIncludedWithoutEmptyCheck(v) ==
    /\ v.t \notin {"undefined", "null"}
    /\ IsFinite(Number(Str(Trim(String(v)))))

\* the guards of main.js:601-605 (resp. 621-625): the bound is given, its
\* trimmed string form is not empty and Number() of it is finite
BoundIncluded(v) ==
    /\ v.t \notin {"undefined", "null"}
    /\ Trim(String(v)) # <<>>
    /\ IsFinite(Number(Str(Trim(String(v)))))

\* minNum / maxNum
BoundNumber(v) == Number(Str(Trim(String(v))))

\* s.startsWith(prefix)
StartsWith(s, prefix) ==
    Len(prefix) <= Len(s) /\ SubSeq(s, 1, Len(prefix)) = prefix

\* s.search(sub) for a text without regular-expression operators: the
\* zero-based index of the first occurrence, or -1
Search(s, sub) ==
    LET at == {i \in 1..(Len(s) - Len(sub) + 1) : SubSeq(s, i, i + Len(sub) - 1) = sub}
    IN IF at = {} THEN 0 - 1 ELSE (CHOOSE i \in at : \A j \in at : i <= j) - 1

\* the index of the first character of s at or after i that is no blank
RECURSIVE SkipBlanks(_, _)
SkipBlanks(s, i) == IF i <= Len(s) /\ s[i] = " " THEN SkipBlanks(s, i + 1) ELSE i

\* the character of s at i, "" past the end
At(s, i) == IF i >= 1 /\ i <= Len(s) THEN s[i] ELSE ""

ParseError == [t |-> "error"]

\* JSON.parse reads a string at i: the text between two double quotes.  The
\* texts of the model hold no backslash and no control character.
JSONString(s, i) ==
    LET ends == {j \in (i + 1)..Len(s) : s[j] = "\""}
    IN IF At(s, i) # "\"" \/ ends = {} THEN [ok |-> FALSE]
       ELSE LET j == CHOOSE x \in ends : \A y \in ends : x <= y
            IN [ok |-> TRUE, val |-> SubSeq(s, i + 1, j - 1), next |-> j + 1]

\* m with key k set to v
With(m, k, v) == [x \in DOMAIN m \cup {k} |-> IF x = k THEN v ELSE m[x]]

\* JSON.parse reads the members of an object from i on; m holds the members
\* read so far, a later member replaces an earlier one of the same name
RECURSIVE JSONMembers(_, _, _)
JSONMembers(s, i, m) ==
    LET k == JSONString(s, SkipBlanks(s, i))
    IN IF ~k.ok THEN ParseError
       ELSE LET c == SkipBlanks(s, k.next)
            IN IF At(s, c) # ":" THEN ParseError
               ELSE LET v == JSONString(s, SkipBlanks(s, c + 1))
                    IN IF ~v.ok THEN ParseError
                       ELSE LET e == SkipBlanks(s, v.next)
                            IN IF At(s, e) = ","
                               THEN JSONMembers(s, e + 1, With(m, k.val, v.val))
                               ELSE IF At(s, e) = "}" /\ SkipBlanks(s, e + 1) = Len(s) + 1
                               THEN Obj(With(m, k.val, v.val))
                               ELSE ParseError

\* JSON.parse reads the elements of an array from i on; a holds the elements
\* read so far under their index names '0', '1', ..., the property names of
\* an array
RECURSIVE JSONElements(_, _, _)
JSONElements(s, i, a) ==
    LET v == JSONString(s, SkipBlanks(s, i))
        index == NatToStr(Cardinality(DOMAIN a))
    IN IF ~v.ok THEN ParseError
       ELSE LET e == SkipBlanks(s, v.next)
            IN IF At(s, e) = "," THEN JSONElements(s, e + 1, With(a, index, v.val))
               ELSE IF At(s, e) = "]" /\ SkipBlanks(s, e + 1) = Len(s) + 1
               THEN Obj(With(a, index, v.val))
               ELSE ParseError

\* JSON.parse(s) for the JSON texts of the model: an object whose members
\* are strings, or an array of strings; ParseError where JSON.parse throws
JSONParse(s) ==
    LET i == SkipBlanks(s, 1)
        j == SkipBlanks(s, i + 1)
        closed == SkipBlanks(s, j + 1) = Len(s) + 1
    IN IF At(s, i) = "{"
       THEN IF At(s, j) = "}" THEN (IF closed THEN Obj(<<>>) ELSE ParseError)
            ELSE JSONMembers(s, i + 1, <<>>)
       ELSE IF At(s, i) = "["
       THEN IF At(s, j) = "]" THEN (IF closed THEN Obj(<<>>) ELSE ParseError)
            ELSE JSONElements(s, i + 1, <<>>)
       ELSE ParseError

\* s.replace(/'/g, '"')
DoubleQuoted(s) == [i \in 1..Len(s) |-> IF s[i] = "'" THEN "\"" ELSE s[i]]

\* s.split(c)
RECURSIVE Split(_, _)
Split(s, c) ==
    LET i == Search(s, <<c>>)
    IN IF i < 0 THEN <<s>>
       ELSE <<SubSeq(s, 1, i)>> \o Split(SubSeq(s, i + 2, Len(s)), c)

\* the forEach of 668-677 over the pairs: a pair with a ':' and a key that
\* is not blank sets the key to the trimmed rest
RECURSIVE PairsInto(_, _)
PairsInto(pairs, m) ==
    IF pairs = <<>> THEN m
    ELSE LET pair == Head(pairs)
             i == Search(pair, <<":">>)
             k == Trim(SubSeq(pair, 1, i))
             v == Trim(SubSeq(pair, i + 2, Len(pair)))
         IN IF i >= 0 /\ k # <<>> THEN PairsInto(Tail(pairs), With(m, k, v))
            ELSE PairsInto(Tail(pairs), m)

\* if (x): undefined, null, NaN, 0, '' and false are falsy
Truthy(x) ==
    CASE x.t \in {"undefined", "null", "nan"} -> FALSE
      [] x.t = "string"  -> x.s # <<>>
      [] x.t = "number"  -> x.m # 0
      [] x.t = "boolean" -> x.b
      [] OTHER           -> TRUE

desiredStatesWithoutFallback(valStates) ==
    IF ~Truthy(valStates) THEN Undefined
    ELSE IF valStates.t = "object" THEN valStates
    ELSE IF valStates.t = "string"
    THEN LET s == Trim(valStates.s)
         IN IF StartsWith(s, <<"{">>) \/ StartsWith(s, <<"[">>)
            THEN (IF JSONParse(s).t = "object" THEN JSONParse(s) ELSE Undefined)
            ELSE LET obj == PairsInto(Split(s, ","), <<>>)
                 IN IF DOMAIN obj # {} THEN Obj(obj) ELSE Undefined
    ELSE Undefined

\* desiredCommon.states (641-683): Undefined when the key is not set
desiredStates(valStates) ==
    IF ~Truthy(valStates) THEN Undefined
    ELSE IF valStates.t = "object" THEN valStates
    ELSE IF valStates.t = "string"
    THEN LET s == Trim(valStates.s)
         IN IF StartsWith(s, <<"{">>) \/ StartsWith(s, <<"[">>)
            THEN (IF JSONParse(s).t = "object" THEN JSONParse(s)
                  ELSE IF JSONParse(DoubleQuoted(s)).t = "object"
                  THEN JSONParse(DoubleQuoted(s))
                  ELSE Undefined)
            ELSE LET obj == PairsInto(Split(s, ","), <<>>)
                 IN IF DOMAIN obj # {} THEN Obj(obj) ELSE Undefined
    ELSE Undefined

\* desiredCommon has the key states (641-683)
StatesIncluded(v) == desiredStates(v).t = "object"

\* desiredCommon of createISGCommands (579-683)
DesiredCommon(r) ==
    LET base == [k \in {"name", "type", "read", "write", "unit", "role"} |->
                    CASE k = "name"  -> Str(T_N)
                      [] k = "type"  -> Str(T_number)
                      [] k = "read"  -> Bool(TRUE)
                      [] k = "write" -> Bool(TRUE)
                      [] k = "unit"  -> Str(T_unit)
                      [] k = "role"  -> Str(T_state)]
        withMin == IF BoundIncluded(r.valMin)
                   THEN Put(base, "min", BoundNumber(r.valMin)) ELSE base
        withMax == IF BoundIncluded(r.valMax)
                   THEN Put(withMin, "max", BoundNumber(r.valMax)) ELSE withMin
    IN IF StatesIncluded(r.valStates)
       THEN Put(withMax, "states", desiredStates(r.valStates))
       ELSE withMax

\* the common part updateState hands to setObjectNotExists (330-343)
ReadingCommon ==
    [k \in {"name", "type", "read", "write", "unit", "role"} |->
        CASE k = "name"  -> Str(T_N)
          [] k = "type"  -> Str(T_number)
          [] k = "read"  -> Bool(TRUE)
          [] k = "write" -> Bool(FALSE)
          [] k = "unit"  -> Str(T_unit)
          [] k = "role"  -> Str(T_value)]

BasicKeys == {"name", "type", "read", "write", "unit", "role"}

\* newCommon of createISGCommands (712-747)
NewCommon(existingCommon, desiredCommon) ==
    LET basic == [k \in DOMAIN existingCommon \cup BasicKeys |->
                     IF k \in BasicKeys THEN desiredCommon[k] ELSE existingCommon[k]]
        min == IF "min" \in DOMAIN desiredCommon
               THEN Put(basic, "min", desiredCommon["min"]) ELSE Delete(basic, "min")
        max == IF "max" \in DOMAIN desiredCommon
               THEN Put(min, "max", desiredCommon["max"]) ELSE Delete(min, "max")
    IN IF "states" \in DOMAIN desiredCommon
       THEN Put(max, "states", desiredCommon["states"]) ELSE max

keysToCheck == {"name", "type", "read", "write", "unit", "role", "min", "max", "states"}

\* JSON.stringify(a) === JSON.stringify(b) for objects, String(a) === String(b)
\* otherwise (756-759).  The states mappings of the model have integer-like
\* keys, which JSON.stringify lists in ascending order, so two mappings
\* stringify alike exactly when they are equal.
Same(a, b) ==
    IF a.t = "object" /\ b.t = "object" THEN a.m = b.m ELSE String(a) = String(b)

\* needUpdate (751-764)
NeedUpdate(existingCommon, newCommon) ==
    \E k \in keysToCheck : ~Same(Get(existingCommon, k), Get(newCommon, k))

\* the value of key k after a deep merge of patch into old
Merged(old, patch, k) ==
    IF k \notin DOMAIN patch THEN old[k]
    ELSE IF k \in DOMAIN old /\ old[k].t = "object" /\ patch[k].t = "object"
    THEN Obj([x \in DOMAIN old[k].m \cup DOMAIN patch[k].m |->
                 IF x \in DOMAIN patch[k].m THEN patch[k].m[x] ELSE old[k].m[x]])
    ELSE patch[k]

\* adapter.extendObject(id, {common: patch}) (768): js-controller reads the
\* object and deep-merges the given part into it, so a key the patch does
\* not name keeps its stored value; an object that does not exist is created
ExtendObject(o, patch) ==
    IF Exists(o)
    THEN [common |-> [k \in DOMAIN o.common \cup DOMAIN patch |-> Merged(o.common, patch, k)]]
    ELSE [common |-> patch]

IsValNNUnanchored(tag) ==
    /\ Len(tag) > 3
    /\ SubSeq(tag, 1, 3) = <<"v", "a", "l">>
    /\ IsDigit(tag[4])

\* last.match(/^val(\d+)$/) of safeSetState (251-252)
IsValNN(tag) ==
    /\ Len(tag) > 3
    /\ SubSeq(tag, 1, 3) = <<"v", "a", "l">>
    /\ AllDigits(SubSeq(tag, 4, Len(tag)))

ClampToNearestBound(common, val) ==
    LET min == Get(common, "min")
        max == Get(common, "max")
    IN IF min.t # "undefined" /\ ~IsNaN(Number(min)) /\ ~IsNaN(Number(val))
          /\ Less(Number(val), Number(min))
       THEN Number(min)
       ELSE IF max.t # "undefined" /\ ~IsNaN(Number(max)) /\ ~IsNaN(Number(val))
               /\ Less(Number(max), Number(val))
       THEN Number(max)
       ELSE val

\* finalVal of safeSetState (269-290): below min gives min, then above max
\* gives Number(min) as well
Clamp(common, val) ==
    LET min == Get(common, "min")
        max == Get(common, "max")
        v1 == IF min.t # "undefined" /\ ~IsNaN(Number(min)) /\ ~IsNaN(Number(val))
                 /\ Less(Number(val), Number(min))
              THEN Number(min) ELSE val
    IN IF max.t # "undefined" /\ ~IsNaN(Number(max)) /\ ~IsNaN(Number(v1))
          /\ Less(Number(max), Number(v1))
       THEN Number(min) ELSE v1

Text_settings == <<"s", "e", "t", "t", "i", "n", "g", "s">>
Text_info     == <<"i", "n", "f", "o">>
Text_STATISTIK == <<".", "A", "N", "L", "A", "G", "E", ".",
                    "S", "T", "A", "T", "I", "S", "T", "I", "K">>

\* translateName(strName) (212-231): the table's text, or the name itself
\* when the table has no text, or an empty one, for it
translateName(strName) ==
    IF strName \in DOMAIN nameTranslation /\ nameTranslation[strName] # <<>>
    THEN nameTranslation[strName]
    ELSE strName

\* a * b on finite numbers and NaN
Times(a, b) ==
    LET x == Number(a)
        y == Number(b)
    IN IF x.t = "number" /\ y.t = "number" THEN Normal(x.m * y.m, x.e + y.e) ELSE NaN

ValueExpireSettingsOnly(strGroup) ==
    IF StartsWith(strGroup, translateName(Text_settings))
    THEN Times(config.isgCommandIntervall, Num(2))
    ELSE Times(config.isgIntervall, Num(2))

\* ValueExpire of updateState (312-321)
ValueExpire(strGroup) ==
    IF \/ StartsWith(strGroup, translateName(Text_settings))
       \/ StartsWith(strGroup, translateName(Text_info) \o Text_STATISTIK)
    THEN Times(config.isgCommandIntervall, Num(2))
    ELSE Times(config.isgIntervall, Num(2))

\* one run of createISGCommands / updateState for the entity: where it
\* stands (pc), what its lookup returned (found), its desiredCommon, the
\* patch it sent, the store calls it made (ops), whether safeSetState read
\* the bounds (read), the min and max the entity declared when the value was
\* written (declared), the value written (wrote), the expire argument it
\* gives safeSetState (expire) and the expire of the state it wrote
\* (wroteExpire, Undefined for a state written without one)
IdleProc == [pc |-> "idle", round |-> 0, found |-> "none", desired |-> <<>>,
             patch |-> <<>>, ops |-> <<>>, read |-> "none",
             declared |-> <<Undefined, Undefined>>, wrote |-> Undefined,
             expire |-> Undefined, wroteExpire |-> Undefined]

Active(pr) == pr.pc \notin {"idle", "done"}

\* const { min, max } = obj.common, undefined for an object that is missing
Declared(o) ==
    IF Exists(o) THEN <<Get(o.common, "min"), Get(o.common, "max")>>
    ELSE <<Undefined, Undefined>>

SafeSetStateCallSkippingValNN(pr, o) ==
    IF IsValNN(rec.tag)
    THEN [proc |-> [pr EXCEPT !.pc = "done"], write |-> FALSE]
    ELSE [proc |-> [pr EXCEPT !.pc = "done", !.ops = Append(pr.ops, "write"),
                              !.declared = Declared(o), !.wrote = rec.valValue,
                              !.wroteExpire = pr.expire],
          write |-> TRUE]

\* safeSetState(id, val, true, pr.expire) called by the run pr while the
\* store holds o: a direct setState (250-265), or getObject first when the
\* last segment of the id is val<digits> (268)
SafeSetStateCall(pr, o) ==
    IF IsValNN(rec.tag)
    THEN [proc |-> [pr EXCEPT !.pc = "safeGet"], write |-> FALSE]
    ELSE [proc |-> [pr EXCEPT !.pc = "done", !.ops = Append(pr.ops, "write"),
                              !.declared = Declared(o), !.wrote = rec.valValue,
                              !.wroteExpire = pr.expire],
          write |-> TRUE]

Apply(p, call) ==
    /\ proc' = [proc EXCEPT ![p] = call.proc]
    /\ stateVal' = IF call.write THEN call.proc.wrote ELSE stateVal

\* createISGCommands(...) up to adapter.getObject, or updateState(...) up to
\* adapter.setObjectNotExists
StartReconcile(p) ==
    /\ ~Active(proc[p])
    /\ started < MaxReconciles
    /\ started' = started + 1
    /\ overlap' = (overlap \/ \E q \in Procs \ {p} : Active(proc[q]))
    /\ proc' = [proc EXCEPT ![p] =
          IF rec.kind = "command"
          THEN [IdleProc EXCEPT !.pc = "getObject", !.round = started + 1,
                                !.desired = DesiredCommon(rec)]
          ELSE [IdleProc EXCEPT !.pc = "create", !.round = started + 1,
                                !.desired = ReadingCommon, !.ops = <<"createCall">>,
                                !.expire = ValueExpire(rec.strGroup)]]
    /\ UNCHANGED <<rec, object, stateVal, storeErr>>
    /\ UNCHANGED schedVars
    /\ UNCHANGED extractVars

ObjectMissingAlways(o) == TRUE

\* the !obj test of 696
ObjectMissing(o) == ~Exists(o)

LookupFailsNever(err) == FALSE

\* if (err) { ...; return; } (689-694)
LookupFails(err) == err

\* the callback of adapter.getObject in createISGCommands (688-784)
GetObjectCallback(p) ==
    /\ proc[p].pc = "getObject"
    /\ \E err \in BOOLEAN :
          /\ storeErr' = (storeErr \/ err)
          /\ IF LookupFails(err)
             THEN /\ proc' = [proc EXCEPT ![p].pc = "done", ![p].found = "error"]
                  /\ UNCHANGED stateVal
             ELSE LET pr == [proc[p] EXCEPT !.found = IF Exists(object) THEN "present"
                                                      ELSE "absent"]
                      existingCommon == IF Exists(object) THEN object.common ELSE <<>>
                      newCommon == NewCommon(existingCommon, pr.desired)
                  IN IF ObjectMissing(object)
                     THEN /\ proc' = [proc EXCEPT ![p] =
                                 [pr EXCEPT !.pc = "create",
                                            !.ops = Append(pr.ops, "createCall")]]
                          /\ UNCHANGED stateVal
                     ELSE IF NeedUpdate(existingCommon, newCommon)
                     THEN /\ proc' = [proc EXCEPT ![p] =
                                 [pr EXCEPT !.pc = "extend", !.patch = newCommon,
                                            !.ops = Append(pr.ops, "patchCall")]]
                          /\ UNCHANGED stateVal
                     ELSE Apply(p, SafeSetStateCall(pr, object))
    /\ UNCHANGED <<rec, object, started, overlap>>
    /\ UNCHANGED schedVars
    /\ UNCHANGED extractVars

\* adapter.setObjectNotExists takes effect and calls back (698-709, 330-348)
SetObjectNotExistsCallback(p) ==
    /\ proc[p].pc = "create"
    /\ LET created == ~Exists(object)
           o == IF created THEN [common |-> proc[p].desired] ELSE object
           pr == [proc[p] EXCEPT !.ops = IF created THEN Append(@, "created") ELSE @]
       IN /\ object' = o
          /\ Apply(p, SafeSetStateCall(pr, o))
    /\ UNCHANGED <<rec, started, overlap, storeErr>>
    /\ UNCHANGED schedVars
    /\ UNCHANGED extractVars

\* adapter.extendObject takes effect, or fails, and calls back (768-777)
ExtendObjectCallback(p) ==
    /\ proc[p].pc = "extend"
    /\ \E err2 \in BOOLEAN :
          LET pr == [proc[p] EXCEPT !.ops = IF err2 THEN @ ELSE Append(@, "patched")]
              o == IF err2 THEN object ELSE ExtendObject(object, proc[p].patch)
          IN /\ object' = o
             /\ storeErr' = (storeErr \/ err2)
             /\ Apply(p, SafeSetStateCall(pr, o))
    /\ UNCHANGED <<rec, started, overlap>>
    /\ UNCHANGED schedVars
    /\ UNCHANGED extractVars

\* the callback of adapter.getObject in safeSetState (268-304)
SafeSetStateCallback(p) ==
    /\ proc[p].pc = "safeGet"
    /\ \E err2 \in BOOLEAN :
          LET usable == ~err2 /\ Exists(object)
              finalVal == IF usable THEN Clamp(object.common, rec.valValue)
                          ELSE rec.valValue
          IN /\ proc' = [proc EXCEPT ![p].pc = "done",
                                     ![p].read = IF usable THEN "bounds" ELSE "failed",
                                     ![p].ops = Append(@, "write"),
                                     ![p].declared = Declared(object),
                                     ![p].wrote = finalVal,
                                     ![p].wroteExpire = proc[p].expire]
             /\ stateVal' = finalVal
             /\ storeErr' = (storeErr \/ err2)
    /\ UNCHANGED <<rec, object, started, overlap>>
    /\ UNCHANGED schedVars
    /\ UNCHANGED extractVars

NextStore ==
    \/ \E p \in Procs : StartReconcile(p)
    \/ \E p \in Procs : GetObjectCallback(p)
    \/ \E p \in Procs : SetObjectNotExistsCallback(p)
    \/ \E p \in Procs : ExtendObjectCallback(p)
    \/ \E p \in Procs : SafeSetStateCallback(p)

\* the scheduling side at rest, for the specifications of the store side
SchedIdleWith(cfg) ==
    /\ InitSched
    /\ config = cfg
    /\ limits = <<>>

\* adapter.config.isgIntervall and isgCommandIntervall, in seconds
PollIntervals(isgInt, isgCmdInt) ==
    [isgIntervall |-> isgInt, isgCommandIntervall |-> isgCmdInt]

SchedIdle == SchedIdleWith(PollIntervals(Num(30), Num(600)))

\* the entity ids of the model: the last segment decides safeSetState's path
EntityTags == {<<"v", "a", "l", "1", "2">>, <<"v", "a", "l", "1", "s">>, <<"T">>}

States1 == Obj([k \in {"0"} |-> "Off"])
States2 == Obj([k \in {"0", "1"} |-> IF k = "0" THEN "Off" ELSE "On"])

\* common parts persisted by earlier runs: the basic fields, with or
\* without (stale zero) bounds and with or without states
StoredCommons ==
    {[k \in BasicKeys \cup X |->
         IF k \in {"min", "max"} THEN Num(0)
         ELSE IF k = "states" THEN States2
         ELSE DesiredCommon([valMin |-> Undefined, valMax |-> Undefined,
                             valStates |-> Str(<<>>)])[k]] :
        X \in SUBSET {"min", "max", "states"}}

StoredObjects == {NoObject} \cup {[common |-> c] : c \in StoredCommons}

\* valValue: parseFloat of the device's text, below, within and above the
\* bounds of the model, or NaN
ValueInputs == {Num(0 - 1), Num(3), Num(60), NaN}

\* valMin / valMax as getIsgCommands passes them: '' or a parseFloat result
StoreMinInputs == {Str(<<>>), Num(5), NaN}
StoreMaxInputs == {Str(<<>>), Num(50)}

\* valMin / valMax over the kinds of value createISGCommands tells apart
BoundInputs ==
    {Undefined, Null, Str(<<>>), Str(<<" ", " ">>), Str(<<"a", "b", "c">>), NaN,
     Infinity(1), Infinity(0 - 1), Num(0), Num(5), Normal(55, 1),
     Str(<<" ", "5", ".", "5", "0", " ">>), Str(<<"-", "5">>)}

CommandRecs(tags, values, states, mins, maxs) ==
    [kind : {"command"}, tag : tags, valValue : values,
     valStates : states, valMin : mins, valMax : maxs]

\* group paths as the extractors build them from the translated branch names
GroupPath(branch, rest) == translateName(branch) \o rest

Text_G == <<".", "G">>

ReadingRecsIn(groups) ==
    [kind : {"reading"}, tag : EntityTags, valValue : ValueInputs,
     valStates : {Undefined}, valMin : {Undefined}, valMax : {Undefined},
     strGroup : groups]

ReadingRecs == ReadingRecsIn({GroupPath(Text_info, Text_G)})

InitStoreWith(recs, objects) ==
    /\ SchedIdle
    /\ ExtractIdle
    /\ rec \in recs
    /\ object \in objects
    /\ stateVal = Undefined
    /\ proc = [p \in Procs |-> IdleProc]
    /\ started = 0
    /\ overlap = FALSE
    /\ storeErr = FALSE

\* a Command meets nothing or what an earlier run persisted for it, a
\* Reading nothing or the object updateState has created for it
InitStore ==
    \/ InitStoreWith(CommandRecs(EntityTags, ValueInputs, {Str(<<>>), States1},
                                 StoreMinInputs, StoreMaxInputs),
                     StoredObjects)
    \/ InitStoreWith(ReadingRecs, {NoObject, [common |-> ReadingCommon]})

StoreSpec == InitStore /\ [][NextStore]_vars

InitBound ==
    InitStoreWith(CommandRecs({<<"v", "a", "l", "1", "2">>}, {Num(3)}, {Str(<<>>)},
                              BoundInputs, BoundInputs),
                  {o \in StoredObjects :
                      Exists(o) => DOMAIN o.common = BasicKeys \cup {"min", "max"}})

BoundSpec == InitBound /\ [][NextStore]_vars

\* a JSON object
States_json == Str(<<"{", "\"", "0", "\"", ":", "\"", "O", "f", "f", "\"", ",", "\"", "1", "\"", ":", "\"", "O", "n", "\"", "}">>)
\* a JSON object with blanks around and inside
States_padded == Str(<<" ", "{", "\"", "0", "\"", " ", ":", " ", "\"", "O", "f", "f", "\"", "}", " ">>)
\* single quotes: parsed at the second attempt
States_single == Str(<<"{", "'", "0", "'", ":", "'", "O", "f", "f", "'", ",", "'", "1", "'", ":", "'", "O", "n", "'", "}">>)
\* the JSON text of a widget without options
States_empty == Str(<<"{", "}">>)
\* a JSON array
States_array == Str(<<"[", "\"", "O", "f", "f", "\"", ",", "\"", "O", "n", "\"", "]">>)
\* an apostrophe in a label: parsed at the first attempt
States_apostrophe == Str(<<"{", "\"", "0", "\"", ":", "\"", "i", "t", "'", "s", "\"", "}">>)
\* no quotes: both attempts fail
States_unquoted == Str(<<"{", "0", ":", "O", "f", "f", "}">>)
\* a double quote in a label: both attempts fail
States_quote == Str(<<"{", "\"", "0", "\"", ":", "\"", "a", "\"", "b", "\"", "}">>)
\* the second attempt turns the apostrophe into a quote and fails
States_mixed == Str(<<"{", "'", "0", "'", ":", "\"", "i", "t", "'", "s", "\"", "}">>)
\* code:label pairs
States_pairs == Str(<<"0", ":", "O", "f", "f", ",", "1", ":", "O", "n">>)
\* pairs with blanks, a colon in a label, a pair without key, a pair without colon
States_loose == Str(<<" ", "0", " ", ":", " ", "O", "f", "f", " ", ",", " ", "1", ":", "O", "n", ":", "x", " ", ",", ":", "y", ",", "z">>)
\* no pair at all
States_word == Str(<<"a", "b", "c">>)
\* blanks only
States_blank == Str(<<" ", " ">>)

\* a mapping handed over as an object
States_object == Obj([k \in {<<"0">>} |-> <<"O", "f", "f">>])

\* the states input of createISGCommands over the shapes it tells apart
StatesInputs ==
    {States_json, States_padded, States_single, States_empty,
     States_array, States_apostrophe, States_unquoted, States_quote,
     States_mixed, States_pairs, States_loose, States_word,
     States_blank, States_object, Str(<<>>), Undefined}

\* StatesSpec: a Command with each states input, without bounds, meeting
\* nothing, an entity without states or an entity with other states
InitStates ==
    InitStoreWith(CommandRecs({<<"T">>, <<"v", "a", "l", "1", "2">>}, {Num(3)},
                              StatesInputs, {Str(<<>>)}, {Str(<<>>)}),
                  {NoObject}
                     \cup {[common |-> c] : c \in {x \in StoredCommons : DOMAIN x = BasicKeys}}
                     \cup {[common |-> Put(c, "states", Obj([k \in {<<"9">>} |-> <<"X">>]))] :
                              c \in {x \in StoredCommons : DOMAIN x = BasicKeys}})

StatesSpec == InitStates /\ [][NextStore]_vars

\* translation tables: none, or one with texts for both branch names
Translations ==
    {NoTranslation,
     [n \in {Text_settings, Text_info} |->
         IF n = Text_settings THEN <<"E", "i", "n", "s", "t">> ELSE <<"I", "n", "f", "o">>]}

IntervalInputs        == {Num(30), Num(60)}
CommandIntervalInputs == {Num(60), Num(600)}

Text_ANLAGE == <<".", "A", "N", "L", "A", "G", "E">>

\* the group paths of Readings: under info, under info.ANLAGE, under
\* info.ANLAGE.STATISTIK and below it, and under settings
ReadingGroups ==
    {GroupPath(Text_info, Text_G), GroupPath(Text_info, Text_ANLAGE),
     GroupPath(Text_info, Text_STATISTIK), GroupPath(Text_info, Text_STATISTIK \o Text_G),
     GroupPath(Text_settings, Text_G)}

\* ReadingSpec: Readings of every group path under every pair of poll
\* intervals and translation table, meeting nothing, the object updateState
\* created, or an object with other metadata; and a Command
InitReading ==
    /\ \E i \in IntervalInputs, c \in CommandIntervalInputs :
          SchedIdleWith(PollIntervals(i, c))
    /\ nameTranslation \in Translations
    /\ row = [page |-> "none"]
    /\ pass = [rows |-> <<>>]
    /\ \/ /\ rec \in {r \in ReadingRecsIn(ReadingGroups) : r.valValue \in {Num(3), NaN}}
          /\ object \in {NoObject, [common |-> ReadingCommon],
                         [common |-> Put(ReadingCommon, "min", Num(0))]}
       \/ /\ rec \in CommandRecs({<<"T">>}, {Num(3)}, {Str(<<>>)}, {Num(5)}, {Str(<<>>)})
          /\ object \in {NoObject, [common |-> ReadingCommon]}
    /\ stateVal = Undefined
    /\ proc = [p \in Procs |-> IdleProc]
    /\ started = 0
    /\ overlap = FALSE
    /\ storeErr = FALSE

ReadingSpec == InitReading /\ [][NextStore]_vars

-----------------------------------------------------------------------------
(* Extraction side: the rows of a status page and of a values page         *)

\* s.replace(/[set]+/g, with) continues after a run of characters of the set
RECURSIVE DropRun(_, _)
DropRun(s, set) == IF s # <<>> /\ Head(s) \in set THEN DropRun(Tail(s), set) ELSE s

\* s.replace(/[set]+/g, with): every run of characters of the set becomes with
RECURSIVE ReplaceRuns(_, _, _)
ReplaceRuns(s, set, with) ==
    IF s = <<>> THEN <<>>
    ELSE IF Head(s) \in set THEN with \o ReplaceRuns(DropRun(s, set), set, with)
    ELSE <<Head(s)>> \o ReplaceRuns(Tail(s), set, with)

\* s.replace(/[set]+/, with): the first run only
RECURSIVE ReplaceFirstRun(_, _, _)
ReplaceFirstRun(s, set, with) ==
    IF s = <<>> THEN <<>>
    ELSE IF Head(s) \in set THEN with \o DropRun(s, set)
    ELSE <<Head(s)>> \o ReplaceFirstRun(Tail(s), set, with)

\* s.replace(sub, with) for a text sub: the first occurrence only
ReplaceFirst(s, sub, with) ==
    LET i == Search(s, sub)
    IN IF i < 0 THEN s
       ELSE SubSeq(s, 1, i) \o with \o SubSeq(s, i + Len(sub) + 1, Len(s))

\* s.replace(/[ ]{0,2}/, ''): the match is at the start of s, up to two blanks
DropLeadingBlanks(s) ==
    IF Len(s) >= 2 /\ s[1] = " " /\ s[2] = " " THEN SubSeq(s, 3, Len(s))
    ELSE IF Len(s) >= 1 /\ s[1] = " " THEN Tail(s)
    ELSE s

\* s.replace(/([.0][0]){1}?/, ''): the first '.0' or '00'
DropPointZero(s) ==
    LET at == {i \in 1..(Len(s) - 1) : s[i] \in {".", "0"} /\ s[i + 1] = "0"}
    IN IF at = {} THEN s
       ELSE LET i == CHOOSE i \in at : \A j \in at : i <= j
            IN SubSeq(s, 1, i - 1) \o SubSeq(s, i + 2, Len(s))

\* the digits s starts with
RECURSIVE LeadingDigits(_)
LeadingDigits(s) ==
    IF s # <<>> /\ IsDigit(Head(s)) THEN <<Head(s)>> \o LeadingDigits(Tail(s)) ELSE <<>>

\* parseFloat(s): leading white space skipped, then the longest prefix that
\* is a decimal literal
parseFloat(s) ==
    LET r == TrimLeft(s)
        signed == r # <<>> /\ Head(r) \in {"-", "+"}
        u == IF signed THEN Tail(r) ELSE r
        int == LeadingDigits(u)
        rest == SubSeq(u, Len(int) + 1, Len(u))
        frac == IF rest # <<>> /\ Head(rest) = "." THEN LeadingDigits(Tail(rest)) ELSE <<>>
        abs == IF StartsWith(u, Text_Infinity) THEN Infinity(1)
               ELSE IF Len(int) + Len(frac) = 0 THEN NaN
               ELSE Normal(DigitsVal(int \o frac), Len(frac))
    IN IF signed /\ Head(r) = "-" THEN Negate(abs) ELSE abs

SanitiseKeepingEszett(text) ==
    ReplaceRuns(ReplaceRuns(text, {" ", "-"}, <<"_">>), {"."}, <<>>)

\* the key of a row (425-430, 496-501): runs of blanks and hyphens become
\* '_', points are dropped, the first run of U+00DF becomes 'SS'
Sanitise(text) ==
    ReplaceFirstRun(ReplaceRuns(ReplaceRuns(text, {" ", "-"}, <<"_">>), {"."}, <<>>),
                    {"ß"}, <<"S", "S">>)

Text_TEMP == <<"T", "E", "M", "P">>
Text_FROST == <<"F", "R", "O", "S", "T">>
Text_SOLLWERT_HK == <<"S", "O", "L", "L", "W", "E", "R", "T", "_", "H", "K">>
Text_ISTWERT_HK == <<"I", "S", "T", "W", "E", "R", "T", "_", "H", "K">>
Text_DRUCK == <<"D", "R", "U", "C", "K">>
Text_P_ == <<"P", "_">>
Text_FEUCHTE == <<"F", "E", "U", "C", "H", "T", "E">>
Text_value_temperature == <<"v", "a", "l", "u", "e", ".", "t", "e", "m", "p", "e", "r", "a", "t", "u", "r", "e">>
Text_value_pressure == <<"v", "a", "l", "u", "e", ".", "p", "r", "e", "s", "s", "u", "r", "e">>
Text_value_power_consumption == <<"v", "a", "l", "u", "e", ".", "p", "o", "w", "e", "r", ".", "c", "o", "n", "s", "u", "m", "p", "t", "i", "o", "n">>
Text_value_humidity == <<"v", "a", "l", "u", "e", ".", "h", "u", "m", "i", "d", "i", "t", "y">>
Text_indicator_state == <<"i", "n", "d", "i", "c", "a", "t", "o", "r", ".", "s", "t", "a", "t", "e">>
Text_boolean == <<"b", "o", "o", "l", "e", "a", "n">>
Text_symbol_an == <<"s", "y", "m", "b", "o", "l", "_", "a", "n">>

valueRolePressureFirst(key) ==
    IF Search(key, Text_DRUCK) > 0 - 1 THEN Text_value_pressure
    ELSE IF \/ Search(key, Text_TEMP) > 0 - 1
            \/ Search(key, Text_FROST) > 0 - 1
            \/ Search(key, Text_SOLLWERT_HK) = 0
            \/ Search(key, Text_ISTWERT_HK) = 0
    THEN Text_value_temperature
    ELSE IF Search(key, Text_P_) = 0 THEN Text_value_power_consumption
    ELSE IF Search(key, Text_FEUCHTE) > 0 - 1 THEN Text_value_humidity
    ELSE T_value

\* valueRole of getIsgValues (512-529)
valueRole(key) ==
    IF \/ Search(key, Text_TEMP) > 0 - 1
       \/ Search(key, Text_FROST) > 0 - 1
       \/ Search(key, Text_SOLLWERT_HK) = 0
       \/ Search(key, Text_ISTWERT_HK) = 0
    THEN Text_value_temperature
    ELSE IF Search(key, Text_DRUCK) > 0 - 1 THEN Text_value_pressure
    ELSE IF Search(key, Text_P_) = 0 THEN Text_value_power_consumption
    ELSE IF Search(key, Text_FEUCHTE) > 0 - 1 THEN Text_value_humidity
    ELSE T_value

\* const param (503) of a values row
ValueParam(text) == ReplaceFirst(text, <<",">>, <<".">>)

\* const unit (506-511)
Unit(param, value) ==
    LET a == DropLeadingBlanks(param)
        b == ReplaceRuns(a, {" "}, <<>>)
        c == ReplaceFirst(b, String(value), <<>>)
        d == DropPointZero(c)
    IN DropRun(d, {"0"})

NoRow     == [page |-> "none"]
NoReading == [kind |-> "none"]

\* the text of a cell: '' when the row has no such cell
CellText(cell) == IF cell.t = "null" THEN <<>> ELSE cell.s

\* the arguments of a call of updateState (307)
Reading(strGroup, valTag, valTagLang, valType, valUnit, valRole, valValue) ==
    [kind |-> "reading", strGroup |-> strGroup, tag |-> valTag,
     valTagLang |-> valTagLang, valType |-> valType, valUnit |-> valUnit,
     valRole |-> valRole, valValue |-> valValue,
     valStates |-> Undefined, valMin |-> Undefined, valMax |-> Undefined]

\* the common part updateState hands to setObjectNotExists (334-341)
ReadingCommonOf(r) ==
    [k \in BasicKeys |->
        CASE k = "name"  -> Str(r.valTagLang)
          [] k = "type"  -> Str(r.valType)
          [] k = "read"  -> Bool(TRUE)
          [] k = "write" -> Bool(FALSE)
          [] k = "unit"  -> Str(r.valUnit)
          [] k = "role"  -> Str(r.valRole)]

\* updateState(...) up to adapter.setObjectNotExists (307-343), called by the
\* poll for the Reading r.  The entity id, for which updateState replaces
\* runs of '*' and, if configured, umlauts, is not part of the state.
UpdateStateCall(r) ==
    /\ rec' = r
    /\ started' = started + 1
    /\ proc' = [proc EXCEPT !["poll"] =
          [IdleProc EXCEPT !.pc = "create", !.round = started + 1,
                           !.desired = ReadingCommonOf(r), !.ops = <<"createCall">>,
                           !.expire = ValueExpire(r.strGroup)]]

\* the Reading of a values row (494-541)
ValuesReading(r) ==
    LET valueName == CellText(r.key)
        key == Sanitise(CellText(r.key))
        param == ValueParam(CellText(r.value))
        value == parseFloat(param)
    IN Reading(GroupPath(Text_info, Text_G), key, translateName(valueName), T_number,
               Unit(param, value), valueRole(key), value)

\* the test of 531
ValuesEmits(r) ==
    LET reading == ValuesReading(r)
    IN reading.tag # <<>> /\ ~IsNaN(reading.valValue)

\* the function given to .each in getIsgValues (494-542) for one row
GetIsgValuesRow ==
    /\ row.page = "values"
    /\ row.at = "pending"
    /\ row' = [row EXCEPT !.at = "done"]
    /\ IF ValuesEmits(row) THEN UpdateStateCall(ValuesReading(row))
       ELSE UNCHANGED <<rec, started, proc>>
    /\ UNCHANGED <<object, stateVal, overlap, storeErr, nameTranslation, pass>>
    /\ UNCHANGED schedVars

StatusValueOfAnyCell(param) ==
    IF param.t # "null" THEN Bool(TRUE) ELSE Undefined

\* let value of getIsgStatus (432-438): param is the markup of the value
\* cell, null when the row has none
StatusValue(param) ==
    IF param.t # "null" /\ Search(param.s, Text_symbol_an) > 0 - 1 THEN Bool(TRUE)
    ELSE Undefined

\* valThisType (440-448)
StatusType(value) ==
    IF value = Bool(TRUE) \/ value = Bool(FALSE) THEN Text_boolean ELSE T_state

\* the Reading of a status row (423-459)
StatusReading(r) ==
    LET valueName == CellText(r.key)
        key == Sanitise(CellText(r.key))
        value == StatusValue(r.value)
    IN Reading(GroupPath(Text_info, Text_G), key, translateName(valueName),
               StatusType(value), <<>>, Text_indicator_state, value)

\* the function given to .each in getIsgStatus (422-461) for one row
GetIsgStatusRow ==
    /\ row.page = "status"
    /\ row.at = "pending"
    /\ row' = [row EXCEPT !.at = "done"]
    /\ IF StatusValue(row.value) = Bool(TRUE) THEN UpdateStateCall(StatusReading(row))
       ELSE UNCHANGED <<rec, started, proc>>
    /\ UNCHANGED <<object, stateVal, overlap, storeErr, nameTranslation, pass>>
    /\ UNCHANGED schedVars

NextExtract ==
    \/ GetIsgValuesRow
    \/ GetIsgStatusRow
    \/ \E p \in Procs : SetObjectNotExistsCallback(p)
    \/ \E p \in Procs : SafeSetStateCallback(p)

\* key texts of rows: mixed and upper case, with U+00DF, blanks, hyphens and
\* points, the texts the roles are chosen by, alone, away from the start of
\* the key and several in one key, a val<digits> key and no text
KeyTexts ==
    {<<"A", "u", "ß", "e", "n", "t", "e", "m", "p", "e", "r", "a", "t", "u", "r">>,
     <<"A", "U", "ß", "E", "N", "T", "E", "M", "P", "E", "R", "A", "T", "U", "R">>,
     <<"A", "U", "S", "S", "E", "N", "T", "E", "M", "P", "E", "R", "A", "T", "U", "R">>,
     <<"P", "_", "W", "P">>,
     <<"D", "R", "U", "C", "K", " ", "H", "K">>,
     <<"R", "E", "L", ".", " ", "F", "E", "U", "C", "H", "T", "E">>,
     <<"S", "O", "L", "L", "W", "E", "R", "T", " ", "H", "K", " ", "1">>,
     <<"X", "-", "I", "S", "T", "W", "E", "R", "T", " ", "H", "K">>,
     <<"F", "R", "O", "S", "T", "S", "C", "H", "U", "T", "Z">>,
     <<"v", "a", "l", "1", "2">>,
     <<"D", "R", "U", "C", "K", " ", "T", "E", "M", "P">>,
     <<"P", " ", "F", "E", "U", "C", "H", "T", "E">>,
     <<"P", "_", "D", "R", "U", "C", "K">>,
     <<"F", "E", "U", "C", "H", "T", "E", "-", "D", "R", "U", "C", "K">>,
     <<"X", " ", "P", "_">>,
     <<"I", "S", "T", "W", "E", "R", "T", " ", "H", "K", " ", "F", "R", "O", "S", "T">>,
     <<>>}

\* value texts of values rows: decimal commas and points, units with and
\* without a blank, trailing zeros, no number, no text
ValueTexts ==
    {<<"5", ",", "3", " ", "°", "C">>,
     <<"5", ".", "3", " ", "°", "C">>,
     <<" ", " ", "2", "1", " ", "%">>,
     <<>>,
     <<"a", "u", "s">>,
     <<"-", "3", ",", "0", " ", "°", "C">>,
     <<"0", ",", "5", "0", " ", "b", "a", "r">>,
     <<"1", ",", "2", "3", "4", " ", "k", "W", "h">>,
     <<"1", "0", ",", "0", " ", "°", "C">>,
     <<"1", "0", "0", " ", "h">>}

\* markups of the value cell of status rows
ValueMarkups ==
    {<<>>,
     <<"s", "y", "m", "b", "o", "l", "_", "a", "n">>,
     <<"<", "i", " ", "c", "l", "a", "s", "s", "=", "\"", "s", "y", "m", "b", "o", "l", "_", "a", "n", "\"", ">">>,
     <<"s", "y", "m", "b", "o", "l", "_", "a", "u", "s">>,
     <<"s", "y", "m", "b", "o", "l", "_", "a">>,
     <<"S", "Y", "M", "B", "O", "L", "_", "A", "N">>}

ValuesRows ==
    [page : {"values"}, at : {"pending"}, key : {Str(k) : k \in KeyTexts},
     value : {Null} \cup {Str(v) : v \in ValueTexts}]

StatusRows ==
    [page : {"status"}, at : {"pending"},
     key : {Str(k) : k \in {<<"L", "Ü", "F", "T", "E", "R">>, <<"H", "E", "I", "Z", "E", "N">>, <<>>}},
     value : {Null} \cup {Str(v) : v \in ValueMarkups}]

\* ExtractSpec: one row of a values page or of a status page, and the entity
\* of its Reading absent or present
InitExtract ==
    /\ SchedIdle
    /\ nameTranslation \in Translations
    /\ row \in ValuesRows \cup StatusRows
    /\ pass = [rows |-> <<>>]
    /\ rec = NoReading
    /\ object \in {NoObject, [common |-> ReadingCommon]}
    /\ stateVal = Undefined
    /\ proc = [p \in Procs |-> IdleProc]
    /\ started = 0
    /\ overlap = FALSE
    /\ storeErr = FALSE

ExtractSpec == InitExtract /\ [][NextExtract]_vars

-----------------------------------------------------------------------------
(* One pass of an extractor over a page: the order of the value writes     *)

\* the rows of a page, each the Reading of an entity of its own whose id ends
\* in val<digits> or does not
PassRows == UNION {[1..n -> [valNN : BOOLEAN, pc : {"pending"}]] : n \in 1..MaxRows}

\* s without its element at position i
Without(s, i) == SubSeq(s, 1, i - 1) \o SubSeq(s, i + 1, Len(s))

\* the walk over the rows (410-462, 481-543): .each calls updateState for
\* every row in document order within one turn; each call ends with its
\* adapter.setObjectNotExists (330) issued
ExtractorPass ==
    /\ pass.rows # <<>>
    /\ \A i \in 1..Len(pass.rows) : pass.rows[i].pc = "pending"
    /\ pass' = [pass EXCEPT
          !.rows = [i \in 1..Len(pass.rows) |-> [pass.rows[i] EXCEPT !.pc = "create"]],
          !.calls = [i \in 1..Len(pass.rows) |-> [row |-> i, op |-> "create"]]]
    /\ UNCHANGED <<nameTranslation, row>>
    /\ UNCHANGED schedVars
    /\ UNCHANGED storeVars

\* the store call at position c of the calls awaiting their callback can
\* call back now
CanCallBack(c) == c \in 1..Len(pass.calls) /\ (pass.inOrder => c = 1)

\* the callback of a row's setObjectNotExists (344-347): safeSetState writes
\* the value at once (253-265), or issues getObject for an id val<digits>
\* (268)
PassCreateCallback(c) ==
    /\ CanCallBack(c)
    /\ pass.calls[c].op = "create"
    /\ LET i == pass.calls[c].row
       IN pass' = IF pass.rows[i].valNN
                  THEN [pass EXCEPT !.rows[i].pc = "safeGet",
                                    !.calls = Append(Without(pass.calls, c),
                                                     [row |-> i, op |-> "safeGet"])]
                  ELSE [pass EXCEPT !.rows[i].pc = "done",
                                    !.calls = Without(pass.calls, c),
                                    !.log = Append(pass.log, i)]
    /\ UNCHANGED <<nameTranslation, row>>
    /\ UNCHANGED schedVars
    /\ UNCHANGED storeVars

\* the callback of safeSetState's getObject (268-304) writes the value
PassSafeGetCallback(c) ==
    /\ CanCallBack(c)
    /\ pass.calls[c].op = "safeGet"
    /\ LET i == pass.calls[c].row
       IN pass' = [pass EXCEPT !.rows[i].pc = "done",
                               !.calls = Without(pass.calls, c),
                               !.log = Append(pass.log, i)]
    /\ UNCHANGED <<nameTranslation, row>>
    /\ UNCHANGED schedVars
    /\ UNCHANGED storeVars

NextPass ==
    \/ ExtractorPass
    \/ \E c \in 1..MaxRows : PassCreateCallback(c)
    \/ \E c \in 1..MaxRows : PassSafeGetCallback(c)

\* PassSpec: a page of one to MaxRows rows, and a store that calls back in
\* any order or in the order of the calls
InitPass ==
    /\ SchedIdle
    /\ nameTranslation = NoTranslation
    /\ row = NoRow
    /\ pass \in [rows : PassRows, calls : {<<>>}, log : {<<>>}, inOrder : BOOLEAN]
    /\ rec = <<>>
    /\ object = <<>>
    /\ stateVal = <<>>
    /\ proc = <<>>
    /\ started = 0
    /\ overlap = FALSE
    /\ storeErr = FALSE

PassSpec == InitPass /\ [][NextPass]_vars

-----------------------------------------------------------------------------
(* Properties of the concurrency queue *)

Admitted == {t \in TaskIds : task[t].st \in {"fetching", "body"}}
Settled  == {t \in TaskIds : task[t].st = "done"}

\* C1: the number of tasks admitted by the queue and not yet settled is never
\* above maxConcurrentFetches and never below 0; the counter `running` is
\* that number.
C1_GateBounded ==
    /\ running = Cardinality(Admitted)
    /\ running >= 0
    /\ running <= maxConcurrentFetches

\* more tasks submitted than slots: the gate is full, one task waits, and
\* tasks have completed by success and by failure
C1_Witness ==
    /\ running = maxConcurrentFetches
    /\ Len(queue) > 0
    /\ Settled # {}
    /\ anyFailed

\* HTTP requests to the device in flight: page fetches of admitted tasks, the
\* credential check of main(), save.php POSTs, reboot requests
HttpInFlight ==
    Cardinality(Admitted) + credChecks + credBodies + Cardinality(flushes) + reboots

\* C2: at any time at most maxConcurrentFetches HTTP requests to the device
\* are in flight, the credential check and the command-flush POSTs included.
C2_HttpInFlightBounded == HttpInFlight <= maxConcurrentFetches

\* C3: provided every admitted task terminates, every task handed to
\* schedule() is eventually admitted and settled, whether the tasks before
\* it succeed or fail.
C3_EverySubmittedTaskSettles ==
    \A t \in TaskIds : (task[t].st \in {"queued", "fetching"}) ~> (t \in Settled)

\* a task waits behind a full gate one of whose tasks is about to settle,
\* after an earlier task has failed
C3_Witness ==
    /\ Len(queue) > 0
    /\ running = maxConcurrentFetches
    /\ anyFailed
    /\ immediates > 0

-----------------------------------------------------------------------------
(* Properties of the command sender *)

RECURSIVE IsSubSeq(_, _)
IsSubSeq(a, b) ==
    IF a = <<>> THEN TRUE
    ELSE IF b = <<>> THEN FALSE
    ELSE IF Head(a) = Head(b) THEN IsSubSeq(Tail(a), Tail(b))
    ELSE IsSubSeq(a, Tail(b))

\* C9: when commands are enqueued each before the debounce timer of the
\* previous one has fired, one POST is issued for them (no other debounce
\* timer stays armed when it is), and its payload holds all of them in
\* enqueue order.
C9_BurstFlushedInOnePost ==
    [][\A f \in flushes' \ flushes :
          /\ IsSubSeq(burst, f.payload)
          /\ timers' = {}]_vars

\* C10: when a flush attempt ends, whatever its outcome, the pending batch
\* is empty, and no POST carries a command that was part of a flush that
\* has failed before.
C10_BatchClearedNoRetry ==
    [][/\ (flushes' # flushes /\ flushes' \subseteq flushes) => commands' = <<>>
       /\ \A f \in flushes' \ flushes : Tags(f.payload) \cap failedCmds = {}]_vars

-----------------------------------------------------------------------------
(* Properties of the reconciler *)

\* the store calls a run has made
Ops(p) == {proc[p].ops[i] : i \in 1..Len(proc[p].ops)}

\* C4: the desired metadata of a Command holds min (max) exactly when the
\* supplied bound is given, its trimmed string form is not empty and that
\* form converts to a finite number, and then it holds that number; an
\* entity newly created from the Command carries the same bounds.  An
\* undefined, null, empty, blank, non-numeric, NaN or infinite bound leaves
\* the key absent, it never becomes 0.
C4_BoundsIffFinite ==
    \A p \in Procs :
        (rec.kind = "command" /\ proc[p].pc # "idle") =>
            LET given == [k \in {"min", "max"} |-> IF k = "min" THEN rec.valMin ELSE rec.valMax]
                text == [k \in {"min", "max"} |-> Trim(String(given[k]))]
                finite == [k \in {"min", "max"} |->
                              /\ given[k].t \notin {"undefined", "null"}
                              /\ text[k] # <<>>
                              /\ StringToNumber(text[k]).t = "number"]
                noBound == {Undefined, Null, Str(<<>>), Str(<<" ", " ">>),
                            Str(<<"a", "b", "c">>), NaN, Infinity(1), Infinity(0 - 1)}
            IN \A k \in {"min", "max"} :
                  /\ (k \in DOMAIN proc[p].desired) <=> finite[k]
                  /\ finite[k] => proc[p].desired[k] = StringToNumber(text[k])
                  /\ given[k] \in noBound => k \notin DOMAIN proc[p].desired
                  /\ "created" \in Ops(p) =>
                        /\ (k \in DOMAIN object.common) <=> finite[k]
                        /\ finite[k] => object.common[k] = StringToNumber(text[k])

\* an entity has been created from a Command whose min is the empty string
\* and whose max is ' 5.50 ': it carries max 5.5 and no min
C4_Witness ==
    \E p \in Procs :
        /\ rec.valMin = Str(<<>>)
        /\ rec.valMax = Str(<<" ", "5", ".", "5", "0", " ">>)
        /\ "created" \in Ops(p)
        /\ DOMAIN object.common = BasicKeys \cup {"max"}
        /\ object.common["max"] = Normal(55, 1)

\* a reconcile that ran alone, met no store error and has written the value
Completed(p) ==
    /\ proc[p].pc = "done"
    /\ "write" \in Ops(p)
    /\ ~overlap
    /\ ~storeErr

\* C5: once the reconcile of a Command whose entity already exists has
\* completed, the persisted metadata holds no min (max) when the Command
\* supplies none; a stale bound does not survive the patch.
C5_StaleBoundRemoved ==
    \A p \in Procs :
        (rec.kind = "command" /\ Completed(p) /\ proc[p].found = "present") =>
            \A k \in {"min", "max"} :
                k \notin DOMAIN proc[p].desired => k \notin DOMAIN object.common

\* C6: the second of two reconciles in a row of the same Reading or Command
\* issues no metadata patch and creates nothing, it only writes the value,
\* whatever the persisted entity was before the first reconcile.
C6_SecondReconcileOnlyWrites ==
    \A p \in Procs :
        (Completed(p) /\ proc[p].round >= 2) =>
            /\ "patchCall" \notin Ops(p)
            /\ "created" \notin Ops(p)
            /\ rec.kind = "command" => proc[p].ops = <<"write">>

\* C7: a reconcile of a Command whose lookup returned the entity never
\* creates it again and never removes it: its store calls are at most one
\* metadata patch followed by the value write; a create is issued only when
\* the lookup returned no entity.
C7_ExistingEntityNeverRecreated ==
    \A p \in Procs :
        rec.kind = "command" =>
            /\ proc[p].found = "present" =>
                  /\ Exists(object)
                  /\ proc[p].ops \in {<<>>, <<"write">>, <<"patchCall">>,
                                      <<"patchCall", "patched">>,
                                      <<"patchCall", "write">>,
                                      <<"patchCall", "patched", "write">>}
            /\ "createCall" \in Ops(p) => proc[p].found = "absent"

\* the entity existed, has been patched and the value has been written
C7_Witness ==
    \E p \in Procs :
        /\ rec.kind = "command"
        /\ proc[p].found = "present"
        /\ proc[p].ops = <<"patchCall", "patched", "write">>

\* the min and max an entity declared when the value was written are numbers
DeclaresBounds(p) ==
    /\ proc[p].declared[1].t = "number"
    /\ proc[p].declared[2].t = "number"

\* C8 as stated: whenever a numeric value is written to an entity that
\* declares min and max, the bounds are read first, a value below min is
\* written as min and a value above max is written as min, for every
\* bounded entity (here: every entity that carries the bounds of its
\* Command).
C8_EveryBoundedWriteClamped ==
    \A p \in Procs :
        (Completed(p) /\ DeclaresBounds(p) /\ rec.valValue.t = "number"
         /\ proc[p].declared = <<rec.valMin, rec.valMax>>) =>
            /\ proc[p].read = "bounds"
            /\ Less(rec.valValue, proc[p].declared[1]) => proc[p].wrote = proc[p].declared[1]
            /\ Less(proc[p].declared[2], rec.valValue) => proc[p].wrote = proc[p].declared[1]

\* C8 amended: the bounds are read only for an entity whose id ends in a
\* segment val<digits>.  When that lookup succeeds, a numeric value below a
\* declared numeric min is written as min, and otherwise a value above a
\* declared numeric max is written as Number(min): min when the entity
\* declares one, NaN when it declares none; any other value is written
\* unchanged.  An entity with any other id is written unchanged and its
\* bounds are not read.
C8_ClampOnlyValNN ==
    \A p \in Procs :
        (proc[p].pc = "done" /\ "write" \in Ops(p)) =>
            LET val == rec.valValue
                min == proc[p].declared[1]
                max == proc[p].declared[2]
                below == val.t = "number" /\ min.t = "number" /\ Less(val, min)
                above == val.t = "number" /\ max.t = "number" /\ Less(max, val)
            IN /\ ~IsValNN(rec.tag) => (proc[p].read = "none" /\ proc[p].wrote = val)
               /\ IsValNN(rec.tag) => proc[p].read \in {"bounds", "failed"}
               /\ proc[p].read = "failed" => proc[p].wrote = val
               /\ proc[p].read = "bounds" =>
                     proc[p].wrote =
                        IF below THEN min
                        ELSE IF above THEN (IF min.t = "number" THEN min ELSE NaN)
                        ELSE val

\* a value above the declared max of a val<digits> entity has been written
\* as its declared min
C8_Witness ==
    \E p \in Procs :
        /\ proc[p].pc = "done"
        /\ proc[p].read = "bounds"
        /\ DeclaresBounds(p)
        /\ Less(proc[p].declared[2], rec.valValue)
        /\ Less(proc[p].declared[1], proc[p].declared[2])
        /\ proc[p].wrote = proc[p].declared[1]

-----------------------------------------------------------------------------
(* Properties of the read-back, of state changes and of page fetches *)

\* the tasks a step submits to the gate
Submitted == {t \in TaskIds : task[t].st = "none" /\ task'[t].st # "none"}

\* a step in which a save.php POST ends
FlushEnds == flushes' # flushes /\ flushes' \subseteq flushes

\* C11: a flush answered with status 200 submits one Commands task per
\* configured command page and nothing else; a flush that ends in any other
\* way (other status, transport error, abort by the timeout) submits no task
C11_ReadBackOn200Only ==
    [][FlushEnds =>
          IF flushResult' = "200"
          THEN /\ Cardinality(Submitted) = Len(commandPaths)
               /\ \A t \in Submitted : task'[t].kind = "commands"
          ELSE Submitted = {} /\ task' = task /\ queue' = queue]_vars

\* a flush was answered with 200 and its read-back is in the gate next to
\* the task of the initial fetch
C11_Witness ==
    /\ flushResult = "200"
    /\ Len(commandPaths) = 1
    /\ Cardinality({t \in TaskIds : task[t].kind = "commands"}) >= 2


\* a step of stateChange that is visible: it handles another notification
\* than the last one, enqueues a command or requests a reboot
Handled == lastChange' # lastChange \/ nCmds' # nCmds \/ nReboots' # nReboots

\* C12: an acknowledged notification, or one without state, enqueues nothing
\* and requests no reboot; a non-acknowledged write to ISGReboot requests the
\* reboot and the restart of main and enqueues nothing; a non-acknowledged
\* write to any other state appends exactly one entry {last id segment, value}
C12_StateChangeDispatch ==
    [][Handled =>
          LET id == lastChange'.id
              st == lastChange'.state
          IN IF ~st.present \/ st.ack
             THEN UNCHANGED <<commands, timers, CommandTimeout, nCmds, reboots,
                              restarts, nReboots>>
             ELSE IF id[Len(id)] = "ISGReboot"
             THEN /\ reboots' = reboots + 1
                  /\ restarts' = restarts + 1
                  /\ UNCHANGED <<commands, timers, CommandTimeout, nCmds>>
             ELSE /\ Len(commands') = Len(commands) + 1
                  /\ SubSeq(commands', 1, Len(commands)) = commands
                  /\ commands'[Len(commands')].name = id[Len(id)]
                  /\ commands'[Len(commands')].value = st.val
                  /\ UNCHANGED <<reboots, restarts, nReboots>>]_vars

\* a write to ISGReboot has been handled while a command was pending: the
\* reboot and the restart are requested and the batch still holds the one
\* command
C12_Witness ==
    /\ lastChange.id = RebootId
    /\ reboots = 1
    /\ restarts = 1
    /\ Len(commands) = 1


\* a step in which the getHTML call of a task returns or throws
PageFetchEnds ==
    \E t \in TaskIds : task[t].st \in {"fetching", "body"} /\ task'[t].st = "done"

\* C13: a page fetch answered with status 200 whose body is read returns a
\* document and sets info.connection true; a page fetch that gets another
\* status or fails in transport (before the answer, by the abort of its
\* timer, or while the body is read) returns no document and sets
\* info.connection false
C13_DocumentIffStatus200 ==
    [][PageFetchEnds =>
          IF lastFetch'.outcome = "200"
          THEN lastFetch'.doc /\ connection' = TRUE
          ELSE /\ lastFetch'.outcome \in {"non200", "error", "abort", "body"}
               /\ ~lastFetch'.doc
               /\ connection' = FALSE]_vars

\* a page fetch has returned its document after another one had failed
C13_Witness ==
    /\ lastFetch.outcome = "200"
    /\ lastFetch.doc
    /\ connection = TRUE
    /\ anyFailed
    /\ \E t \in TaskIds : task[t].st = "done"


\* the page fetches that have not been answered yet
Unanswered == {t \in TaskIds : task[t].st = "fetching"}

\* C14: with a configured timeout above 0 every unanswered page fetch has its
\* abort timer armed, and a fetch the timer aborts fails with info.connection
\* false and without a document; with the timeout 0 no timer is ever armed
\* and no fetch is aborted
C14_TimeoutCancelsUnanswered ==
    /\ [](config.requestTimeout = Num(5) => Unanswered \subseteq taskTimers)
    /\ [](config.requestTimeout = Num(0) =>
             /\ taskTimers = {}
             /\ otherTimers = [cred |-> 0, flush |-> {}, reboot |-> 0]
             /\ lastFetch.outcome # "abort"
             /\ flushResult # "abort")
    /\ [][PageFetchEnds /\ lastFetch'.outcome = "abort" =>
             ~lastFetch'.doc /\ connection' = FALSE]_vars

\* with a timeout above 0, one page fetch has been aborted by its timer
\* while another one is still waiting with its timer armed
C14_Witness ==
    /\ config.requestTimeout = Num(5)
    /\ lastFetch.outcome = "abort"
    /\ connection = FALSE
    /\ \E t \in TaskIds : task[t].st = "done"
    /\ \E t \in Unanswered : t \in taskTimers


\* C15: a page fetch that has returned or thrown (status 200, another status,
\* transport error, abort) has no armed timer: the armed timers all belong
\* to page fetches that are not answered yet, credential check included
C15_NoTimerLeftArmed ==
    /\ taskTimers \subseteq Unanswered
    /\ otherTimers.cred <= credChecks

\* one page fetch has failed, one is reading its body, and the only armed
\* timer is that of a third one still waiting for its answer
C15_Witness ==
    /\ \E t \in TaskIds : task[t].st = "done"
    /\ anyFailed
    /\ \E t \in TaskIds : task[t].st = "body"
    /\ taskTimers # {}
    /\ taskTimers = Unanswered


\* C16: a page fetch answered with a status other than 200 (401 for one)
\* sets info.connection false, and no row or widget of that page is
\* reconciled in that pass (updateState and createISGCommands, the only
\* writers of Readings and Commands, are called for none)
C16_Non200LeavesStoreUnchanged ==
    [][PageFetchEnds /\ lastFetch'.outcome = "non200" =>
          /\ connection' = FALSE
          /\ lastFetch'.processed = <<>>]_vars

\* a page has been answered with another status after an earlier page had
\* been walked
C16_Witness ==
    /\ lastFetch.outcome = "non200"
    /\ lastFetch.processed = <<>>
    /\ connection = FALSE
    /\ Cardinality({t \in TaskIds : task[t].st = "done"}) >= 2


\* a step in which the page fetch of task t fails: transport error, another
\* status than 200, abort by the timeout, or a body that cannot be read
FetchFails(t) ==
    /\ task[t].st \in {"fetching", "body"}
    /\ task'[t].st = "done"
    /\ lastFetch'.outcome # "200"

\* a step of one of the two poll ticks: tasks are submitted, and neither a
\* flush nor a credential check ends
TickSubmits ==
    /\ Submitted # {}
    /\ flushes' = flushes
    /\ credChecks' = credChecks
    /\ credBodies' = credBodies

\* C17: a failed page fetch ends its own task only: the task is done and its
\* slot is released with runQueue called again, no other task, the queue and
\* the poll intervals are touched; and a poll tick, whatever has failed
\* before it, submits every page of its lists again
C17_FailureEndsOnlyItsTask ==
    /\ [][\A t \in TaskIds : FetchFails(t) =>
             /\ running' = running - 1
             /\ immediates' = immediates + 1
             /\ \A u \in TaskIds \ {t} : task'[u] = task[u]
             /\ queue' = queue
             /\ isgIntervall' = isgIntervall
             /\ isgCommandIntervall' = isgCommandIntervall
             /\ intervals' = intervals]_vars
    /\ [][TickSubmits =>
             LET kinds == {task'[t].kind : t \in Submitted}
             IN \/ /\ kinds = {"values", "status"} \cap
                               ({"values" : i \in 1..Len(valuePaths)}
                                   \cup {"status" : i \in 1..Len(statusPaths)})
                   /\ Cardinality(Submitted) = Len(valuePaths) + Len(statusPaths)
                \/ /\ kinds = {"commands"}
                   /\ Cardinality(Submitted) = Len(commandPaths)]_vars

\* one page's fetch has just failed and released its slot, while the task of
\* another page is reading its body and the poll intervals are active
C17_Witness ==
    /\ lastFetch.outcome \in {"non200", "error", "abort"}
    /\ Cardinality({t \in TaskIds : task[t].st = "done"}) = 1
    /\ \E t \in TaskIds : task[t].st = "body"
    /\ running = 1
    /\ immediates = 1
    /\ Polling("values")


\* C18: in each of the three extractors a failure raised by one row or
\* widget is caught at that item, and every other row or widget of the page
\* is processed
C18_EveryOtherItemProcessed ==
    lastFetch.doc =>
        \A i \in 1..Len(lastFetch.page) :
            lastFetch.page[i] = "ok" =>
                \E k \in 1..Len(lastFetch.processed) : lastFetch.processed[k] = i


\* C19 as stated: once a fetch has completed, info.connection is true
\* exactly when the fetch that completed last was answered with status 200
C19_FlagIsLastOutcome ==
    lastFetch.outcome # "none" => (connection = TRUE <=> lastFetch.outcome = "200")

\* C19: once a page fetch has completed, info.connection is true exactly
\* when the page fetch that completed last was answered with status 200 and
\* its body was read, and it was not a credential check that got the login
\* page; with the login page the flag is false
C19_FlagIsLastOutcomeUnlessLogin ==
    lastFetch.outcome # "none" =>
        (connection = TRUE <=> lastFetch.outcome = "200" /\ ~lastFetch.login)

\* the credential check was answered with status 200 and the login page
C19_Witness ==
    /\ lastFetch.outcome = "200"
    /\ lastFetch.login
    /\ connection = FALSE
    /\ credChecks = 0
    /\ credBodies = 0


\* the addresses of AddressInputs that are not set, empty or blank, and those
\* that match neither the IPv4 nor the host-name format
EmptyAddresses == {Undefined, Str(<<>>), Str(<<" ">>)}

MalformedAddresses ==
    {Str(<<"1", ".", "2", ".", "3", ".", "2", "5", "6">>),
     Str(<<"1", ".", "2", ".", "3">>),
     Str(<<"i", "s", "g">>)}

\* C20: with an address that is empty or matches neither format, once
\* ready() has run main, no page fetch is in flight, no task has been
\* submitted to the gate, no poll interval is active and info.connection is
\* false; a reboot followed by the restart of main changes none of this
C20_InvalidAddressHaltsStartup ==
    phase = "ready" /\ config.isgAddress \in EmptyAddresses \cup MalformedAddresses =>
        /\ credChecks = 0
        /\ credBodies = 0
        /\ UsedIds = {}
        /\ queue = <<>>
        /\ running = 0
        /\ ~Polling("values")
        /\ ~Polling("commands")
        /\ connection = FALSE

\* main has run twice with a malformed address: at startup and as the
\* restart after a reboot
C20_Witness ==
    /\ phase = "ready"
    /\ config.isgAddress \in MalformedAddresses
    /\ nReboots = 1
    /\ restarts = 0
    /\ UsedIds = {}
    /\ ~Polling("values")
    /\ connection = FALSE

-----------------------------------------------------------------------------
(* Properties of interleaved reconciles, Readings and extraction *)

\* the number of runs that have created the entity
Creations == Cardinality({p \in Procs : "created" \in Ops(p)})

\* two reconciles of the Command have overlapped and both have finished,
\* with no store error
BothFinished ==
    /\ rec.kind = "command"
    /\ overlap
    /\ \A p \in Procs : proc[p].pc = "done"
    /\ ~storeErr

\* C21: when two reconciles of the same Command with the same derived data
\* interleave, the entity is created at most once, and once both have
\* finished the persisted metadata is the desired metadata (a states mapping
\* the entity had is kept when the Command supplies none, as 746 says) and
\* the persisted value is the derived value (as safeSetState writes it:
\* clamped to the desired bounds for an id val<digits>)
C21_InterleavedReconcilesConverge ==
    /\ Creations <= 1
    /\ BothFinished =>
          /\ Exists(object)
          /\ \A k \in DOMAIN DesiredCommon(rec) :
                k \in DOMAIN object.common /\ object.common[k] = DesiredCommon(rec)[k]
          /\ DOMAIN object.common \ DOMAIN DesiredCommon(rec) \subseteq {"states"}
          /\ stateVal \in {rec.valValue, Clamp(DesiredCommon(rec), rec.valValue)}


\* a reconcile of the Reading has finished
ReadingDone(p) == rec.kind = "reading" /\ proc[p].pc = "done"

-----------------------------------------------------------------------------
(* Properties of the extractors *)

\* the values row with the given key text and the value text '5,3 °C' has
\* been handled
HandledValuesRow(keyText) ==
    /\ row = [page |-> "values", at |-> "done", key |-> Str(keyText),
              value |-> Str(<<"5", ",", "3", " ", "°", "C">>)]

\* the Reading handed to updateState has key AUSSENTEMPERATUR, value 5.3,
\* unit '°C' and role value.temperature
IsOutsideTemperatureReading ==
    /\ rec.kind = "reading"
    /\ rec.tag = <<"A", "U", "S", "S", "E", "N", "T", "E", "M", "P", "E", "R", "A", "T", "U", "R">>
    /\ rec.valValue = Normal(53, 1)
    /\ rec.valUnit = <<"°", "C">>
    /\ rec.valRole = <<"v", "a", "l", "u", "e", ".", "t", "e", "m", "p", "e", "r", "a", "t", "u", "r", "e">>

\* C23 as stated: for a row with key text 'Außentemperatur' and value text
\* '5,3 °C' the Values Extractor yields a Reading with key AUSSENTEMPERATUR,
\* value 5.3, unit '°C' and role value.temperature
C23_MixedCaseRowYieldsUpperCaseKey ==
    HandledValuesRow(<<"A", "u", "ß", "e", "n", "t", "e", "m", "p", "e", "r", "a", "t", "u", "r">>) => IsOutsideTemperatureReading

\* C23 amended: for a row with key text 'AUßENTEMPERATUR' and value text
\* '5,3 °C' the Values Extractor yields a Reading with key AUSSENTEMPERATUR,
\* value 5.3, unit '°C' and role value.temperature; the case of the key text
\* is kept, so for the key text 'Außentemperatur' the key is AuSSentemperatur,
\* the role is value, and value and unit are the same
C23_UpperCaseRowYieldsReading ==
    /\ HandledValuesRow(<<"A", "U", "ß", "E", "N", "T", "E", "M", "P", "E", "R", "A", "T", "U", "R">>) => IsOutsideTemperatureReading
    /\ HandledValuesRow(<<"A", "u", "ß", "e", "n", "t", "e", "m", "p", "e", "r", "a", "t", "u", "r">>) =>
          /\ rec.kind = "reading"
          /\ rec.tag = <<"A", "u", "S", "S", "e", "n", "t", "e", "m", "p", "e", "r", "a", "t", "u", "r">>
          /\ rec.valValue = Normal(53, 1)
          /\ rec.valUnit = <<"°", "C">>
          /\ rec.valRole = <<"v", "a", "l", "u", "e">>

\* the row with the upper-case key text has been handled and its value
\* written
C23_Witness ==
    /\ HandledValuesRow(<<"A", "U", "ß", "E", "N", "T", "E", "M", "P", "E", "R", "A", "T", "U", "R">>)
    /\ stateVal = Normal(53, 1)


\* the markup of the value cell of the row contains 'symbol_an'
HasMarker ==
    /\ row.value.t = "string"
    /\ \E i \in 1..(Len(row.value.s) - 8) :
          SubSeq(row.value.s, i, i + 8) =
             <<"s", "y", "m", "b", "o", "l", "_", "a", "n">>

\* C30: for each row the Status Extractor emits a Reading if and only if the
\* value cell's markup contains 'symbol_an'; the Reading has type boolean,
\* value true and role indicator.state, and no Reading with value false is
\* emitted
C30_StatusReadingIffMarker ==
    [][row.page = "status" /\ row'.at = "done" /\ row.at = "pending" =>
          /\ (rec' # rec) <=> HasMarker
          /\ proc'["poll"].pc = "create" <=> HasMarker
          /\ HasMarker =>
                /\ rec'.kind = "reading"
                /\ rec'.valType = <<"b", "o", "o", "l", "e", "a", "n">>
                /\ rec'.valValue = Bool(TRUE)
                /\ rec'.valRole = <<"i", "n", "d", "i", "c", "a", "t", "o", "r", ".",
                                    "s", "t", "a", "t", "e">>
          /\ rec'.kind = "reading" => rec'.valValue # Bool(FALSE)]_vars

\* a status row whose value cell holds the marker inside other markup has
\* been handled and the value true written; the key text was empty
C30_Witness ==
    /\ row.page = "status" /\ row.at = "done"
    /\ HasMarker /\ Len(row.value.s) > 9
    /\ row.key = Str(<<>>)
    /\ stateVal = Bool(TRUE)


-----------------------------------------------------------------------------
(* Properties of the order of admission and of cancellation *)

\* C24: tasks are admitted in the order in which they were submitted.  Task
\* ids are handed out in increasing order (the ids in use are 1..n), the
\* queue holds the waiting tasks in that order, and whenever a task has been
\* started every task submitted before it has been started too, whatever
\* the order in which running tasks complete
C24_AdmissionInSubmissionOrder ==
    /\ \A t1, t2 \in TaskIds :
          t1 < t2 /\ task[t2].st # "none" => task[t1].st # "none"
    /\ \A i, j \in 1..Len(queue) : i < j => queue[i] < queue[j]
    /\ \A t1, t2 \in TaskIds :
          t1 < t2 /\ task[t2].st \in {"fetching", "body", "done"} =>
             task[t1].st \in {"fetching", "body", "done"}

\* a task that had to wait has been admitted after a later-started task
\* completed, while an earlier-started one is still running, and another
\* task waits
C24_Witness ==
    /\ \E t1, t2, t3 \in TaskIds :
          /\ t1 < t2 /\ t2 < t3
          /\ task[t1].st = "fetching"
          /\ task[t2].st = "done"
          /\ task[t3].st = "fetching"
    /\ queue # <<>>


\* the abort timer of task t's page fetch expires in this step
TimerAborts(t) ==
    /\ task[t].st = "fetching"
    /\ task'[t].st = "done"
    /\ lastFetch'.outcome = "abort"

\* the abort timer of a save.php POST expires in this step
TimerAbortsFlush ==
    /\ flushes' # flushes
    /\ flushResult' = "abort"

\* C25: the expiry of one fetch's timeout cancels only that fetch: every other
\* task, in flight or queued, every other armed timer, and the credential
\* checks, POSTs and reboot requests in flight are as before, and the gate
\* goes on admitting (the slot is released and runQueue is called again);
\* the expiry of a POST's timeout leaves every task in flight and its timer
\* as they are
C25_TimeoutCancelsOnlyItsFetch ==
    /\ [][\A t \in TaskIds : TimerAborts(t) =>
             /\ \A u \in TaskIds \ {t} : task'[u] = task[u]
             /\ taskTimers' = taskTimers \ {t}
             /\ otherTimers' = otherTimers
             /\ <<credChecks', credBodies', flushes', reboots'>> =
                   <<credChecks, credBodies, flushes, reboots>>
             /\ queue' = queue
             /\ maxConcurrentFetches' = maxConcurrentFetches
             /\ running' = running - 1
             /\ immediates' = immediates + 1]_vars
    /\ [][TimerAbortsFlush =>
             /\ \A u \in TaskIds :
                   task[u].st \in {"fetching", "body"} => task'[u] = task[u]
             /\ taskTimers \subseteq taskTimers'
             /\ running' >= running
             /\ <<credChecks', credBodies', reboots'>> = <<credChecks, credBodies, reboots>>]_vars

\* one page fetch has just been aborted by its timer while another is still
\* waiting with its timer armed and a third task waits in the queue for the
\* runQueue call the abort has scheduled
C25_Witness ==
    /\ lastFetch.outcome = "abort"
    /\ \E u \in TaskIds : task[u].st = "fetching" /\ u \in taskTimers
    /\ queue # <<>>
    /\ immediates > 0
    /\ running < maxConcurrentFetches


-----------------------------------------------------------------------------
(* Properties of the payload of a flush *)

\* C26: the payload POSTed when the debounce timer fires is the content of
\* the pending command batch at that moment, in enqueue order
C26_PayloadIsBatchAtFire ==
    [][\A f \in flushes' \ flushes : f.payload = commands]_vars


-----------------------------------------------------------------------------
(* Properties of the value write of a Command reconcile *)

\* the number of value writes among the store calls
Writes(ops) == Len(SelectSeq(ops, LAMBDA o : o = "write"))

\* C27: a Command reconcile whose lookup succeeds writes the value exactly
\* once, and the write is issued only in or after the callback of the create
\* or of the patch, or right after the comparison when the entity exists and
\* no patch is sent; a reconcile whose lookup fails writes nothing
C27_ExactlyOneValueWrite ==
    [][rec.kind = "command" =>
          \A p \in Procs :
             LET before == proc[p]
                 after == proc'[p]
             IN /\ Writes(after.ops) <= 1
                /\ after.pc = "done" =>
                      Writes(after.ops) = IF after.found = "error" THEN 0 ELSE 1
                /\ Writes(after.ops) > Writes(before.ops) =>
                      /\ stateVal' = after.wrote
                      /\ after.pc = "done"
                      /\ after.ops[Len(after.ops)] = "write"
                      /\ \/ before.pc = "create" /\ before.ops = <<"createCall">>
                         \/ before.pc = "extend" /\ before.ops = <<"patchCall">>
                         \/ /\ before.pc = "getObject"
                            /\ after.found = "present"
                            /\ after.ops = <<"write">>
                         \/ /\ before.pc = "safeGet"
                            /\ before.ops \in {<<>>, <<"createCall">>,
                                               <<"createCall", "created">>,
                                               <<"patchCall">>, <<"patchCall", "patched">>}]_vars

\* both reconciles of a Command with an id val<digits> have written the value
\* once each, one after its patch and one without a patch
C27_Witness ==
    /\ rec.kind = "command"
    /\ IsValNN(rec.tag)
    /\ proc["poll"].pc = "done" /\ proc["readback"].pc = "done"
    /\ \E p, q \in Procs :
          /\ proc[p].ops = <<"patchCall", "patched", "write">>
          /\ proc[q].ops = <<"write">>


-----------------------------------------------------------------------------
(* Properties of the states of a Command *)

\* what the claim gives for the states input of the Command: the mapping,
\* or Undefined for states left unset
NormalisedStates ==
    CASE rec.valStates.t = "object" -> rec.valStates
          [] rec.valStates = States_json -> Obj([k \in {<<"0">>, <<"1">>} |->
                    IF k = <<"0">> THEN <<"O", "f", "f">>
                    ELSE <<"O", "n">>])
          [] rec.valStates = States_padded -> Obj([k \in {<<"0">>} |-> <<"O", "f", "f">>])
          [] rec.valStates = States_single -> Obj([k \in {<<"0">>, <<"1">>} |->
                    IF k = <<"0">> THEN <<"O", "f", "f">>
                    ELSE <<"O", "n">>])
          [] rec.valStates = States_empty -> Obj(<<>>)
          [] rec.valStates = States_array ->
                   Obj([k \in {<<"0">>, <<"1">>} |->
                           IF k = <<"0">> THEN <<"O", "f", "f">> ELSE <<"O", "n">>])
          [] rec.valStates = States_apostrophe -> Obj([k \in {<<"0">>} |-> <<"i", "t", "'", "s">>])
          [] rec.valStates = States_unquoted -> Undefined
          [] rec.valStates = States_quote -> Undefined
          [] rec.valStates = States_mixed -> Undefined
          [] rec.valStates = States_pairs -> Obj([k \in {<<"0">>, <<"1">>} |->
                    IF k = <<"0">> THEN <<"O", "f", "f">>
                    ELSE <<"O", "n">>])
          [] rec.valStates = States_loose -> Obj([k \in {<<"0">>, <<"1">>} |->
                    IF k = <<"0">> THEN <<"O", "f", "f">>
                    ELSE <<"O", "n", ":", "x">>])
          [] rec.valStates = States_word -> Undefined
          [] rec.valStates = States_blank -> Undefined
          [] OTHER -> Undefined

\* C28: an object given as states is used as it is; a string starting with
\* '{' or '[' is parsed as JSON, at a second attempt with single quotes
\* replaced by double quotes; any other string is split as
\* 'code:label,code:label'; a string that cannot be parsed, or is empty,
\* leaves states unset in the desired metadata, and the Command is
\* reconciled all the same: unless a store call fails, the entity exists
\* with the desired basic fields and the value has been written
C28_StatesNormalised ==
    \A p \in Procs :
       /\ proc[p].pc # "idle" =>
             IF NormalisedStates = Undefined
             THEN "states" \notin DOMAIN proc[p].desired
             ELSE /\ "states" \in DOMAIN proc[p].desired
                  /\ proc[p].desired["states"] = NormalisedStates
       /\ proc[p].pc = "done" /\ ~storeErr =>
             /\ Exists(object)
             /\ \A k \in {"name", "type", "read", "write", "unit", "role"} :
                   object.common[k] = proc[p].desired[k]
             /\ proc[p].ops[Len(proc[p].ops)] = "write"
             /\ stateVal = Num(3)

\* a Command whose states text cannot be parsed at either attempt has been
\* reconciled: the entity was created without states and the value written
C28_Witness ==
    /\ rec.valStates = Str(<<"{", "'", "0", "'", ":", "\"", "i", "t", "'", "s", "\"", "}">>)
    /\ \E p \in Procs : proc[p].ops = <<"createCall", "created", "write">>
    /\ Exists(object)
    /\ "states" \notin DOMAIN object.common
    /\ stateVal = Num(3)


-----------------------------------------------------------------------------
(* Properties of the order of writes within a pass *)

\* C29: within one pass of an extractor over a page the values are written
\* in the document order of their rows
C29_WritesInDocumentOrder ==
    \A i, j \in 1..Len(pass.log) : i < j => pass.log[i] < pass.log[j]

-----------------------------------------------------------------------------
(* C31: the role of a values row                                            *)

Contains(text, sub) ==
    \E i \in 0..(Len(text) - Len(sub)) : SubSeq(text, i + 1, i + Len(sub)) = sub

Begins(text, sub) ==
    Len(sub) <= Len(text) /\ SubSeq(text, 1, Len(sub)) = sub

\* the rules in their order: which rule numbers the key matches
RulesMatched(key) ==
    {n \in 1..5 :
        CASE n = 1 -> \/ Contains(key, <<"T", "E", "M", "P">>)
                      \/ Contains(key, <<"F", "R", "O", "S", "T">>)
                      \/ Begins(key, <<"S", "O", "L", "L", "W", "E", "R", "T", "_", "H", "K">>)
                      \/ Begins(key, <<"I", "S", "T", "W", "E", "R", "T", "_", "H", "K">>)
          [] n = 2 -> Contains(key, <<"D", "R", "U", "C", "K">>)
          [] n = 3 -> Begins(key, <<"P", "_">>)
          [] n = 4 -> Contains(key, <<"F", "E", "U", "C", "H", "T", "E">>)
          [] n = 5 -> TRUE}

RoleOfRule ==
    <<Text_value_temperature, Text_value_pressure, Text_value_power_consumption,
      Text_value_humidity, T_value>>

FirstRule(key) == CHOOSE n \in RulesMatched(key) : \A m \in RulesMatched(key) : n <= m

\* C31: the Reading of a values row has the role of the first rule, in the
\* order temperature (key contains TEMP or FROST, or starts with SOLLWERT_HK
\* or ISTWERT_HK), pressure (contains DRUCK), power consumption (starts with
\* P_), humidity (contains FEUCHTE), value, that its sanitised key matches.
C31_RoleByFirstMatchingRule ==
    (row.page = "values" /\ row.at = "done" /\ rec # NoReading)
        => rec.valRole = RoleOfRule[FirstRule(rec.tag)]

\* a row whose key matches the temperature rule and the pressure rule has
\* been handled and its Reading has the role value.temperature
C31_Witness ==
    /\ row.page = "values" /\ row.at = "done" /\ rec # NoReading
    /\ {1, 2} \subseteq RulesMatched(rec.tag)
    /\ rec.valRole = Text_value_temperature

-----------------------------------------------------------------------------
(* C32: which entities safeSetState looks up                                *)

\* the segment has the form val<digits>
ValDigits(tag) ==
    /\ Len(tag) > 3
    /\ tag[1] = "v" /\ tag[2] = "a" /\ tag[3] = "l"
    /\ \A i \in 4..Len(tag) : tag[i] \in {"0", "1", "2", "3", "4", "5", "6", "7", "8", "9"}

\* C32: safeSetState looks the entity up, and clamps, only when the last
\* segment of the entity id has the form val<digits>; for every other id the
\* value is written unchanged and the entity is not looked up, also when it
\* declares bounds and the value lies outside them.
C32_LookupOnlyForValNN ==
    \A p \in Procs :
        /\ proc[p].pc = "safeGet" => ValDigits(rec.tag)
        /\ (proc[p].pc = "done" /\ "write" \in Ops(p)) =>
              /\ (proc[p].read # "none") <=> ValDigits(rec.tag)
              /\ ~ValDigits(rec.tag) => proc[p].wrote = rec.valValue

\* an entity whose id does not end in val<digits> declares min and max, a
\* value below its min has been written to it unchanged, without a lookup
C32_Witness ==
    \E p \in Procs :
        /\ proc[p].pc = "done" /\ "write" \in Ops(p)
        /\ ~ValDigits(rec.tag)
        /\ rec.tag = <<"v", "a", "l", "1", "s">>
        /\ DeclaresBounds(p)
        /\ Less(rec.valValue, proc[p].declared[1])
        /\ proc[p].read = "none"
        /\ proc[p].wrote = rec.valValue

-----------------------------------------------------------------------------
(* C33: no enqueued command is lost                                         *)

\* C33: every command that has been enqueued is eventually part of the
\* payload of a save.php POST, however the enqueues interleave with the
\* fires of the debounce timer and with the end of an earlier flush.
C33_EveryCommandEventuallyPosted ==
    \A n \in 1..MaxCmds :
        <>(nCmds >= n) => <>(\E f \in flushes : n \in Tags(f.payload))

-----------------------------------------------------------------------------
(* C34: save.php POSTs in flight                                            *)

\* C34: at most one save.php POST is in flight at any time, also when a
\* command is enqueued while an earlier POST is waiting for its answer.
C34_AtMostOneFlushInFlight == Cardinality(flushes) <= 1

-----------------------------------------------------------------------------
(* C35, C36: the interval timers, restarts of main and unload               *)

\* C35: once unload has completed no poll interval timer is active or set
\* again, no debounce timer fires its flush and no page fetch is submitted
\* to the gate, also when unload happens while the restart of main after a
\* reboot request is pending.
C35_NothingRunsAfterUnload ==
    [][/\ phase' = "unloaded" => intervals' = {}
       /\ phase = "unloaded" =>
             /\ flushes' \subseteq flushes
             /\ Submitted = {}]_vars


\* C36: at most one value/status interval timer and at most one command
\* interval timer are active at any time, however often main is restarted
\* by reboot writes, also while the credential checks of two runs of main
\* are in flight together.
C36_AtMostOneTimerOfEachKind ==
    \A kind \in {"values", "commands"} :
        Cardinality({tm \in intervals : tm.kind = kind}) <= 1

\* the restart of main after a reboot has set the two timers a second time,
\* and one timer of each kind is active
C36_Witness ==
    /\ nReboots >= 1
    /\ isgIntervall = 2
    /\ isgCommandIntervall = 2
    /\ intervals = {[kind |-> "values", id |-> 2], [kind |-> "commands", id |-> 2]}

-----------------------------------------------------------------------------
(* C37: the value written to a val<digits> entity                           *)

\* C37: when safeSetState has looked up a val<digits> entity and the input
\* is a finite number, the value written is a finite number: the input when
\* it lies within the declared bounds or the bound on its side is not
\* declared, otherwise a declared bound, whichever of min and max the
\* entity declares.
C37_ClampedWriteIsFinite ==
    \A p \in Procs :
        (/\ proc[p].pc = "done" /\ "write" \in Ops(p)
         /\ proc[p].read = "bounds"
         /\ ValDigits(rec.tag)
         /\ rec.valValue.t = "number") =>
            LET val == rec.valValue
                min == proc[p].declared[1]
                max == proc[p].declared[2]
                below == min.t = "number" /\ Less(val, min)
                above == max.t = "number" /\ Less(max, val)
            IN /\ proc[p].wrote.t = "number"
               /\ (~below /\ ~above) => proc[p].wrote = val
               /\ (below \/ above) =>
                     proc[p].wrote \in {b \in {min, max} : b.t = "number"}

-----------------------------------------------------------------------------
(* C38: termination of a page fetch under a request timeout                 *)

\* C38: with a request timeout above 0 every page fetch the gate has
\* admitted ends, by success, failure or abort, and releases its slot, also
\* when the device stops responding before it has sent the status or in the
\* middle of the response body.
C38_AdmittedFetchTerminates ==
    \A t \in TaskIds :
        (task[t].st \in {"fetching", "body"}) ~> (task[t].st = "done")

-----------------------------------------------------------------------------
(* C39, C40: what a reconcile leaves alone                                  *)

\* a step of a reconcile of a Command that supplies no states while the
\* entity exists and has a states mapping: the mapping stays as it is, and a
\* patch is issued only when another checked field differs
KeepsStates ==
    (/\ rec.kind = "command"
     /\ ~StatesIncluded(rec.valStates)
     /\ Exists(object)
     /\ "states" \in DOMAIN object.common) =>
        /\ Exists(object')
        /\ "states" \in DOMAIN object'.common
        /\ object'.common["states"] = object.common["states"]
        /\ \A p \in Procs :
              (proc[p].pc = "getObject" /\ proc'[p].pc = "extend") =>
                 \E k \in keysToCheck \ {"states"} :
                    ~Same(Get(object.common, k), Get(proc[p].desired, k))

\* C39: when an existing Command entity has a states mapping and the Command
\* supplies no states, the persisted mapping is left unchanged and its
\* presence alone causes no metadata patch; a min or max that is no longer
\* supplied is removed by the patch.
C39_StatesKeptBoundsRemoved ==
    /\ [][KeepsStates]_vars
    /\ [](\A p \in Procs :
             (rec.kind = "command" /\ Completed(p) /\ "patched" \in Ops(p)) =>
                \A k \in {"min", "max"} :
                   k \notin DOMAIN proc[p].desired => k \notin DOMAIN object.common)


\* C40: a Command reconcile whose entity lookup returns an error issues no
\* create, no metadata patch and no value write, and the store is as it was;
\* a reconcile whose metadata patch fails still issues the value write.
C40_LookupErrorStopsPatchErrorDoesNot ==
    /\ [][rec.kind = "command" =>
             \A p \in Procs :
                /\ (proc[p].pc = "getObject" /\ proc'[p].pc # "getObject"
                    /\ storeErr' /\ ~storeErr) =>
                      /\ proc'[p].pc = "done"
                      /\ proc'[p].ops = <<>>
                      /\ object' = object
                      /\ stateVal' = stateVal
                /\ (proc[p].found = "error" /\ proc'[p].round = proc[p].round) =>
                      proc'[p] = proc[p]
                /\ (proc[p].pc = "extend" /\ proc'[p].pc # "extend"
                    /\ "patched" \notin Ops(p)') =>
                      /\ object' = object
                      /\ \/ proc'[p].pc = "safeGet"
                         \/ proc'[p].pc = "done" /\ Writes(proc'[p].ops) = 1]_vars
    /\ [](rec.kind = "command" =>
             \A p \in Procs :
                (proc[p].pc = "done" /\ "patchCall" \in Ops(p)) => "write" \in Ops(p))

\* the lookup of one reconcile has returned an error while the stored
\* entity carries a bound the Command does not supply: nothing was issued;
\* the patch of the other reconcile has failed and its value is written
C40_Witness ==
    \E p, q \in Procs :
        /\ rec.kind = "command"
        /\ proc[p].found = "error" /\ proc[p].pc = "done" /\ proc[p].ops = <<>>
        /\ proc[q].pc = "done" /\ proc[q].ops = <<"patchCall", "write">>
        /\ stateVal = proc[q].wrote

=============================================================================
